---- MODULE Spec2Model ----
(***************************************************************************)
(* Beacon relay (Zephyr sample): beacon store with sequence deduplication  *)
(* and TTL, payload serializer, flush scheduler over a pool of extended    *)
(* advertising sets, and the recovery watchdog.                            *)
(*                                                                         *)
(* The TTL/sequence variant is src/unnamed/part_000; the aggregation       *)
(* variant (keep-maximum RSSI, occupancy counter) is the second program of *)
(* src/samples/bluetooth/beacon_relay/advertiser/src/main.c, the           *)
(* ring-queue variant (prefix rq_) the first.                              *)
(***************************************************************************)
EXTENDS Integers, Sequences, FiniteSets, TLC

(***************************************************************************)
(* Program constants (part_000:9-21).                                      *)
(***************************************************************************)
MAX_EXT_ADV_DATA_LEN == 191
MAX_ADV_SETS == 2
MAX_BEACONS_PER_SET == 24
BEACON_BATCH_SIZE == 3
BEACON_DATA_SIZE == 7
ADV_DURATION_MS == 2000
MAX_WAIT_TIME_MS == 3000
RECOVERY_TIMEOUT_MS == 5000
TIME_THRESHOLD == 5000
INITIAL_TTL == 3
SEQUENCE_HISTORY_SIZE == 10
RECOVERY_SLEEP_MS == 1000

\* constants of the ring-queue variant (main.c:8-15)
rq_ADV_DURATION_MS == 1000
rq_MAX_ADV_SETS == 3
rq_BEACON_DATA_SIZE == 7
rq_MAX_BEACONS_PER_SET == 25
rq_MAX_WAIT_TIME_MS == 1500
rq_BEACON_BATCH_SIZE == 5

\* -EBUSY and a transport error (any other negative errno)
EBUSY == 16
EIO == 5
\* AD types tested by device_found
BT_DATA_MANUFACTURER_DATA == 255
BT_DATA_SVC_DATA16 == 22

(***************************************************************************)
(* Bounds of the model.                                                    *)
(***************************************************************************)
\* slots of beacon_queue (MAX_BEACONS, 100 in the source)
MAX_BEACONS == 2
\* the clock stops at MaxTime (ms); it advances in steps of TimeStep
MaxTime == 10000
TimeStep == 1000
\* number of sightings delivered by the scanner in one run
MaxSightings == 5
\* number of sightings when a single beacon is in range
MaxLoneSightings == 8
\* number of sightings in one run of the aggregation variant
MaxAggSightings == 4
\* number of Transport calls that fail in one run
MaxFaults == 1
\* number of Transport calls that fail in one run of a stalled Transport
MaxStallFaults == 3
\* number of sightings when a single relay is in range
MaxRingSightings == 12
\* slots of the ring queue (MAX_BEACONS of main.c:13, 120 in the source)
rq_MAX_BEACONS == 6
\* number of sightings in one run of the ring-queue variant
MaxRqSightings == 25
\* slots of the store drawn for the serializer's own specification
PackSlots == 26

\* uint32_t subtraction.  Times stay below 2^31.  When a < b the difference
\* wraps to 2^32 - (b - a), which TLC's integers cannot hold: it is
\* represented by UINT_WRAP - (b - a), which compares the same against every
\* threshold of the program.
UINT_WRAP == 2147483647
Sub32(a, b) == IF a >= b THEN a - b ELSE UINT_WRAP - (b - a)

(***************************************************************************)
(* Addresses: bt_addr_le_t is a type byte followed by 6 address bytes.     *)
(***************************************************************************)
ZeroAddr == [type |-> 0, val |-> <<0, 0, 0, 0, 0, 0>>]
DeviceAddr(n) == [type |-> 1, val |-> <<n, 0, 0, 0, 0, 192>>]

TEST_DEVICE_ADDR == <<246, 229, 212, 195, 178, 161>>
\* (bt_addr_le_t *)test_addr: the 6-byte array read as the 7-byte structure;
\* the last address byte is the byte that follows the array on the stack.
TestAddrLe(g) ==
    [type |-> TEST_DEVICE_ADDR[1],
     val |-> <<TEST_DEVICE_ADDR[2], TEST_DEVICE_ADDR[3], TEST_DEVICE_ADDR[4],
               TEST_DEVICE_ADDR[5], TEST_DEVICE_ADDR[6], g>>]
\* values of a byte read outside its object
StrayBytes == {0, 90}

(***************************************************************************)
(* struct beacon_info and the zero-initialised beacon_queue.               *)
(***************************************************************************)
HistIdx == 0..(SEQUENCE_HISTORY_SIZE - 1)

beacon_info ==
    [addr |-> ZeroAddr, rssi |-> 0, last_seen |-> 0, is_valid |-> FALSE,
     ttl |-> 0, last_sequence |-> 0,
     sequence_history |-> [i \in HistIdx |-> 0], history_index |-> 0,
     temperature |-> 0, voltage |-> 0]

NSlots(q) == Cardinality(DOMAIN q)
ValidSlots(q) == {i \in DOMAIN q : q[i].is_valid}

(***************************************************************************)
(* Deduplication filter.                                                   *)
(***************************************************************************)
\* mutation of is_duplicate_sequence: the history is not searched
is_duplicate_sequence_last(beacon, sequence) ==
    sequence = beacon.last_sequence

\* mutation of is_duplicate_sequence: only the oldest entry of the history
\* is looked at
is_duplicate_sequence_first(beacon, sequence) ==
    \/ sequence = beacon.last_sequence
    \/ beacon.sequence_history[0] = sequence

is_duplicate_sequence(beacon, sequence) ==
    \/ sequence = beacon.last_sequence
    \/ \E i \in HistIdx : beacon.sequence_history[i] = sequence

\* update_sequence_history with a write position that never advances
update_sequence_history_stuck(beacon, sequence) ==
    [beacon EXCEPT !.last_sequence = sequence,
                   !.sequence_history = [@ EXCEPT ![beacon.history_index] = sequence],
                   !.history_index = beacon.history_index]

update_sequence_history(beacon, sequence) ==
    [beacon EXCEPT !.last_sequence = sequence,
                   !.sequence_history = [@ EXCEPT ![beacon.history_index] = sequence],
                   !.history_index = (beacon.history_index + 1) % SEQUENCE_HISTORY_SIZE]

(***************************************************************************)
(* Beacon store: find_or_update_beacon.                                    *)
(***************************************************************************)
RECURSIVE ScanSlots_stop(_, _, _, _)
\* mutation of ScanSlots: the scan ends at the first empty slot
ScanSlots_stop(q, addr, i, empty_slot) ==
    IF i >= NSlots(q)
    THEN [existing_slot |-> -1, empty_slot |-> empty_slot]
    ELSE IF ~q[i].is_valid
         THEN [existing_slot |-> -1, empty_slot |-> i]
         ELSE IF q[i].addr = addr
              THEN [existing_slot |-> i, empty_slot |-> empty_slot]
              ELSE ScanSlots_stop(q, addr, i + 1, empty_slot)

RECURSIVE ScanSlots(_, _, _, _)
\* the for loop of find_or_update_beacon from index i on
ScanSlots(q, addr, i, empty_slot) ==
    IF i >= NSlots(q)
    THEN [existing_slot |-> -1, empty_slot |-> empty_slot]
    ELSE IF ~q[i].is_valid
         THEN ScanSlots(q, addr, i + 1, IF empty_slot = -1 THEN i ELSE empty_slot)
         ELSE IF q[i].addr = addr
              THEN [existing_slot |-> i, empty_slot |-> empty_slot]
              ELSE ScanSlots(q, addr, i + 1, empty_slot)

\* mutation of StoreFull: the first slot is taken over
StoreFull_evict(q) ==
    [q |-> [q EXCEPT ![0].is_valid = FALSE], ret |-> 0]

\* mutation of StoreFull: the sighting is dropped and so is the last record
StoreFull_drop(q) ==
    [q |-> [q EXCEPT ![NSlots(q) - 1].is_valid = FALSE], ret |-> -1]

\* no record of the address and no empty slot (part_000:119)
StoreFull(q) ==
    [q |-> q, ret |-> -1]

\* mutation of find_or_update_beacon: the history of a new record is not
\* cleared before the sequence is written
find_or_update_beacon_dirty(q, addr, rssi, ttl, sequence, temperature, voltage, current_time) ==
    LET s == ScanSlots(q, addr, 0, -1)
        e == s.existing_slot
        f == s.empty_slot
    IN  IF e # -1
        THEN IF is_duplicate_sequence(q[e], sequence)
             THEN [q |-> q, ret |-> e]
             ELSE [q |-> [q EXCEPT ![e] = update_sequence_history(
                                      [@ EXCEPT !.last_seen = current_time,
                                                !.ttl = ttl,
                                                !.temperature = temperature,
                                                !.voltage = voltage],
                                      sequence)],
                   ret |-> e]
        ELSE IF f # -1
             THEN [q |-> [q EXCEPT ![f] =
                            [addr |-> addr, rssi |-> rssi,
                             temperature |-> temperature, voltage |-> voltage,
                             last_seen |-> current_time, is_valid |-> TRUE,
                             ttl |-> ttl, last_sequence |-> sequence,
                             sequence_history |->
                                 [q[f].sequence_history EXCEPT ![0] = sequence],
                             history_index |-> 1]],
                   ret |-> f]
             ELSE StoreFull(q)

find_or_update_beacon(q, addr, rssi, ttl, sequence, temperature, voltage, current_time) ==
    LET s == ScanSlots(q, addr, 0, -1)
        e == s.existing_slot
        f == s.empty_slot
    IN  IF e # -1
        THEN IF is_duplicate_sequence(q[e], sequence)
             THEN [q |-> q, ret |-> e]
             ELSE [q |-> [q EXCEPT ![e] = update_sequence_history(
                                      [@ EXCEPT !.last_seen = current_time,
                                                !.ttl = ttl,
                                                !.temperature = temperature,
                                                !.voltage = voltage],
                                      sequence)],
                   ret |-> e]
        ELSE IF f # -1
             THEN [q |-> [q EXCEPT ![f] =
                            [addr |-> addr, rssi |-> rssi,
                             temperature |-> temperature, voltage |-> voltage,
                             last_seen |-> current_time, is_valid |-> TRUE,
                             ttl |-> ttl, last_sequence |-> sequence,
                             sequence_history |->
                                 [i \in HistIdx |-> IF i = 0 THEN sequence ELSE 0],
                             history_index |-> 1]],
                   ret |-> f]
             ELSE StoreFull(q)

\* add_beacon only logs the result of find_or_update_beacon
add_beacon(q, addr, rssi, ttl, sequence, temperature, voltage, current_time) ==
    find_or_update_beacon(q, addr, rssi, ttl, sequence, temperature, voltage,
                          current_time)

\* the sequences recorded per slot after an upsert of sequence that
\* turned store q into r.q and returned slot r.ret: a new record starts a
\* new list (part_000:109-110), an update appends (part_000:99)
Recording(rec, q, r, sequence) ==
    IF r.ret = -1 \/ r.q = q
    THEN rec
    ELSE IF q[r.ret].is_valid
         THEN [rec EXCEPT ![r.ret] = Append(@, sequence)]
         ELSE [rec EXCEPT ![r.ret] = <<sequence>>]

(***************************************************************************)
(* cleanup_old_beacons.                                                    *)
(***************************************************************************)
\* mutation of cleanup_old_beacons: records are dropped at TIME_THRESHOLD
cleanup_old_beacons_early(q, current_time) ==
    [i \in DOMAIN q |->
        IF q[i].is_valid /\ Sub32(current_time, q[i].last_seen) >= TIME_THRESHOLD
        THEN [q[i] EXCEPT !.is_valid = FALSE]
        ELSE q[i]]

cleanup_old_beacons(q, current_time) ==
    [i \in DOMAIN q |->
        IF q[i].is_valid /\ Sub32(current_time, q[i].last_seen) >= TIME_THRESHOLD * 2
        THEN [q[i] EXCEPT !.is_valid = FALSE]
        ELSE q[i]]

(***************************************************************************)
(* device_found: the AD parser.  ad is the advertisement as a sequence of  *)
(* bytes; acc holds ttl, sequence, temperature and voltage; g is the value *)
(* of a byte read past the end of the buffer.                              *)
(***************************************************************************)
ToI16(x) == IF x % 65536 >= 32768 THEN (x % 65536) - 65536 ELSE x % 65536

RECURSIVE ParseAd(_, _, _)
ParseAd(ad, acc, g) ==
    IF Len(ad) <= 1
    THEN acc
    ELSE LET len == ad[1]
             type == ad[2]
             \* data = net_buf_simple_pull_mem(ad, len - 1); data[k] is the
             \* byte k places after the type byte, inside the element or not
             D(k) == IF 3 + k <= Len(ad) THEN ad[3 + k] ELSE g
             rest == IF 2 + (len - 1) <= Len(ad)
                     THEN SubSeq(ad, 2 + len, Len(ad))
                     ELSE <<>>
             acc1 == IF type = BT_DATA_MANUFACTURER_DATA /\ len >= 3
                     THEN IF D(0) = 89 /\ D(1) = 0 /\ D(2) = 8
                          THEN [acc EXCEPT !.sequence = D(3),
                                           !.ttl = IF D(4) > 0 THEN D(4) - 1 ELSE D(4)]
                          ELSE acc
                     ELSE IF type = BT_DATA_SVC_DATA16 /\ len >= 11
                          THEN IF D(0) = 170 /\ D(1) = 254 /\ D(2) = 32
                               THEN [acc EXCEPT !.voltage = D(4) * 256 + D(5),
                                                !.temperature = ToI16(D(6) * 256 + D(7))]
                               ELSE acc
                          ELSE acc
         IN  ParseAd(rest, acc1, g)

RECURSIVE ParseInside(_)
\* every byte the loop of device_found reads of advertisement ad lies inside
\* the element it belongs to and inside ad (part_000:178-221): data[0..2]
\* of a manufacturer element, data[3..4] when they match, data[0..7] of a
\* TLM frame
ParseInside(ad) ==
    IF Len(ad) <= 1
    THEN TRUE
    ELSE LET len == ad[1]
             type == ad[2]
             D(k) == ad[3 + k]
             whole == 2 + (len - 1) <= Len(ad)
             need == IF type = BT_DATA_MANUFACTURER_DATA /\ len >= 3
                     THEN IF len - 1 >= 3 /\ whole
                             /\ D(0) = 89 /\ D(1) = 0 /\ D(2) = 8
                          THEN 5
                          ELSE 3
                     ELSE IF type = BT_DATA_SVC_DATA16 /\ len >= 11
                          THEN IF whole /\ D(0) = 170 /\ D(1) = 254 /\ D(2) = 32
                               THEN 8
                               ELSE 3
                          ELSE 0
         IN  /\ len >= 1
             /\ whole
             /\ need <= len - 1
             /\ ParseInside(SubSeq(ad, 2 + len, Len(ad)))

\* the locals of device_found before the parse (part_000:160-163)
DirectSighting == [ttl |-> INITIAL_TTL, sequence |-> 0, temperature |-> 0, voltage |-> 0]

(***************************************************************************)
(* Payload serializer: send_adv_data.                                      *)
(***************************************************************************)
I8ToByte(x) == (x + 256) % 256
ByteToI8(b) == IF b >= 128 THEN b - 256 ELSE b
Lo(x) == x % 256
Hi(x) == (x % 65536) \div 256

\* the bytes written for one queue entry (part_000:318-325)
EntryBytes(b) ==
    b.addr.val \o <<I8ToByte(b.rssi), b.ttl, Lo(b.temperature), Hi(b.temperature),
                    Lo(b.voltage), Hi(b.voltage)>>

TEST_RSSI == -20
TEST_TEMPERATURE == 17664
TEST_VOLTAGE == 5000
\* the bytes written for the test device (part_000:284-297)
TestEntryBytes ==
    TEST_DEVICE_ADDR \o <<I8ToByte(TEST_RSSI), INITIAL_TTL,
                          Lo(TEST_TEMPERATURE), Hi(TEST_TEMPERATURE),
                          Lo(TEST_VOLTAGE), Hi(TEST_VOLTAGE)>>

\* the header (part_000:254-258)
\* mutation of Header: the layout without the TTL byte
Header_nottl(global_sequence) == <<89, 0, 8, global_sequence>>

Header(global_sequence) == <<89, 0, 8, global_sequence, INITIAL_TTL>>

SetIds == 0..(MAX_ADV_SETS - 1)
\* mutation of FirstInactiveSet: set 0 is taken when every bit is set
FirstInactiveSet_reuse(bits) ==
    IF \E i \in SetIds : i \notin bits
    THEN CHOOSE i \in SetIds : i \notin bits /\ \A j \in SetIds : j \notin bits => i <= j
    ELSE 0

\* the first set whose bit is clear (part_000:269-275)
FirstInactiveSet(bits) ==
    IF \E i \in SetIds : i \notin bits
    THEN CHOOSE i \in SetIds : i \notin bits /\ \A j \in SetIds : j \notin bits => i <= j
    ELSE -1

\* mutation of Relayable: the remaining hops are not looked at
Relayable_anyttl(b, current_time) ==
    /\ b.is_valid
    /\ Sub32(current_time, b.last_seen) >= TIME_THRESHOLD

\* the condition under which the loop relays a queue entry (part_000:315-317)
Relayable(b, current_time) ==
    /\ b.is_valid
    /\ Sub32(current_time, b.last_seen) >= TIME_THRESHOLD
    /\ b.ttl > 0

RECURSIVE PackLoop_noroom(_, _, _, _, _, _)
\* mutation of PackLoop: the room left in the buffer is not looked at
PackLoop_noroom(q, i, buf, beacons_sent, packed, current_time) ==
    IF /\ i < NSlots(q)
       /\ beacons_sent < MAX_BEACONS_PER_SET
    THEN IF Relayable(q[i], current_time)
         THEN PackLoop_noroom([q EXCEPT ![i].is_valid = FALSE], i + 1,
                              buf \o EntryBytes(q[i]), beacons_sent + 1,
                              Append(packed, [slot |-> i, beacon |-> q[i],
                                              at |-> Len(buf)]),
                              current_time)
         ELSE PackLoop_noroom(q, i + 1, buf, beacons_sent, packed, current_time)
    ELSE [q |-> q, buf |-> buf, beacons_sent |-> beacons_sent, packed |-> packed]

RECURSIVE PackLoop(_, _, _, _, _, _)
\* the for loop of send_adv_data from index i on (part_000:312-339);
\* buf is ad_data[0 .. ptr-1], packed lists the slots written
PackLoop(q, i, buf, beacons_sent, packed, current_time) ==
    IF /\ i < NSlots(q)
       /\ beacons_sent < MAX_BEACONS_PER_SET
       /\ (MAX_EXT_ADV_DATA_LEN - Len(buf)) >= BEACON_DATA_SIZE
    THEN IF Relayable(q[i], current_time)
         THEN PackLoop([q EXCEPT ![i].is_valid = FALSE], i + 1,
                       buf \o EntryBytes(q[i]), beacons_sent + 1,
                       Append(packed, [slot |-> i, beacon |-> q[i], at |-> Len(buf)]),
                       current_time)
         ELSE PackLoop(q, i + 1, buf, beacons_sent, packed, current_time)
    ELSE [q |-> q, buf |-> buf, beacons_sent |-> beacons_sent, packed |-> packed]

\* the advertisement Transport sends for a payload: one manufacturer data
\* element (part_000:341-344)
OnAir(payload) == <<Len(payload) + 1, BT_DATA_MANUFACTURER_DATA>> \o payload

\* send_adv_data up to the call of bt_le_ext_adv_set_data (part_000:238-342).
\* W is the program state; g the stray byte read through the test address.
\* ret = 0: a payload was built for set_to_use and is handed to Transport.
PrepareAdv(W, g) ==
    IF W.active_adv_sets > 0
    THEN [W EXCEPT !.ret = -EBUSY, !.set_to_use = -1, !.packed = <<>>]
    ELSE LET gs == (W.global_sequence + 1) % 256
             hdr == Header(gs)
             set_to_use == FirstInactiveSet(W.adv_set_active_bitfield)
         IN  IF set_to_use = -1
             THEN [W EXCEPT !.global_sequence = gs, !.ad_data = hdr,
                            !.ret = -EBUSY, !.set_to_use = -1, !.packed = <<>>]
             ELSE LET room == (MAX_EXT_ADV_DATA_LEN - Len(hdr)) >= (BEACON_DATA_SIZE + 4)
                      buf1 == IF room THEN hdr \o TestEntryBytes ELSE hdr
                      \* add_beacon((bt_addr_le_t *)test_addr, *(ptr - 4), ...)
                      t == IF room
                           THEN add_beacon(W.beacon_queue, TestAddrLe(g),
                                           ByteToI8(buf1[Len(buf1) - 3]), INITIAL_TTL, gs,
                                           TEST_TEMPERATURE, TEST_VOLTAGE, W.now)
                           ELSE [q |-> W.beacon_queue, ret |-> -1]
                      r == PackLoop(t.q, 0, buf1, 0, <<>>, W.now)
                  IN  [W EXCEPT !.global_sequence = gs, !.beacon_queue = r.q,
                                !.recorded = Recording(@, W.beacon_queue, t, gs),
                                !.ad_data = r.buf, !.ret = 0, !.test_ret = t.ret,
                                !.test_device_added = room,
                                !.set_to_use = set_to_use, !.packed = r.packed]

\* the reports in the entries of a buffer: address and last sequence of each
\* record of the TTL variant that was packed (part_000:318-325)
Reports(packed) ==
    {[addr |-> packed[k].beacon.addr, sequence |-> packed[k].beacon.last_sequence] :
        k \in {j \in DOMAIN packed : "last_sequence" \in DOMAIN packed[j].beacon}}

\* mutation of StartAdv: the bit of the set is set, the counter is not
\* incremented
StartAdv_nocount(W, set_err, start_err) ==
    IF set_err # 0
    THEN [W EXCEPT !.ret = set_err, !.faults = @ + 1]
    ELSE IF start_err # 0
         THEN [W EXCEPT !.ret = start_err, !.faults = @ + 1]
         ELSE [W EXCEPT !.adv_set_active_bitfield = @ \cup {W.set_to_use},
                        !.relayed = @ \cup Reports(W.packed),
                        !.handed = [set |-> W.set_to_use,
                                    was_active |-> W.set_to_use \in
                                                   W.adv_set_active_bitfield],
                        !.ret = 0]

\* bt_le_ext_adv_set_data, bt_le_ext_adv_start and the bookkeeping after
\* them (part_000:344-364); set_err and start_err are Transport's answers
StartAdv(W, set_err, start_err) ==
    IF set_err # 0
    THEN [W EXCEPT !.ret = set_err, !.faults = @ + 1]
    ELSE IF start_err # 0
         THEN [W EXCEPT !.ret = start_err, !.faults = @ + 1]
         ELSE [W EXCEPT !.adv_set_active_bitfield = @ \cup {W.set_to_use},
                        !.active_adv_sets = @ + 1,
                        !.relayed = @ \cup Reports(W.packed),
                        !.handed = [set |-> W.set_to_use,
                                    was_active |-> W.set_to_use \in
                                                   W.adv_set_active_bitfield],
                        !.ret = 0]

send_adv_data(W, g, set_err, start_err) ==
    LET W1 == PrepareAdv(W, g)
    IN  IF W1.ret # 0 THEN W1 ELSE StartAdv(W1, set_err, start_err)

(***************************************************************************)
(* recover_from_hang (part_000:494-525).  enable_err is the answer of      *)
(* bt_enable, scan_err the answer of observer_start.  bt_ready runs later, *)
(* when the stack has initialised.                                         *)
(***************************************************************************)
\* mutation of recover_from_hang: the bits of the sets are left as they are
recover_from_hang_keep(W, enable_err, scan_err) ==
    [W EXCEPT !.active_adv_sets = 0,
              !.now = @ + RECOVERY_SLEEP_MS,
              !.bt_ready_pending = (enable_err = 0),
              !.faults = IF enable_err # 0 THEN @ + 1 ELSE @,
              !.beacons_since_last_check = 0,
              !.last_send_time = 0,
              !.scanning = (enable_err = 0 /\ scan_err = 0),
              !.last_recovery = W.now,
              !.q_recover = W.beacon_queue,
              !.recovered = TRUE]

recover_from_hang(W, enable_err, scan_err) ==
    [W EXCEPT !.adv_set_active_bitfield = @ \ W.adv_sets,
              !.active_adv_sets = 0,
              !.now = @ + RECOVERY_SLEEP_MS,
              !.bt_ready_pending = (enable_err = 0),
              !.faults = IF enable_err # 0 THEN @ + 1 ELSE @,
              !.beacons_since_last_check = 0,
              !.last_send_time = 0,
              !.scanning = (enable_err = 0 /\ scan_err = 0),
              !.last_recovery = W.now,
              !.q_recover = W.beacon_queue,
              !.recovered = TRUE]

(***************************************************************************)
(* check_and_send (part_000:368-400).  x holds the answers of Transport    *)
(* and the stray byte for this run of the handler.                         *)
(***************************************************************************)
FlushDue(current_time, last_send_time) ==
    Sub32(current_time, last_send_time) >= MAX_WAIT_TIME_MS

RecoveryDue(current_time, last_successful_operation) ==
    Sub32(current_time, last_successful_operation) > RECOVERY_TIMEOUT_MS

\* the branches on the result of send_adv_data (part_000:382-390)
AfterSend(W, current_time) ==
    IF W.ret = 0
    THEN [W EXCEPT !.last_successful_operation = current_time,
                   !.last_send_time = current_time]
    ELSE W

\* the watchdog at the end of check_and_send (part_000:395-399)
Watchdog(W, current_time, x) ==
    IF RecoveryDue(current_time, W.last_successful_operation)
    THEN recover_from_hang(W, x.enable_err, x.scan_err)
    ELSE W

check_and_send(W, x) ==
    LET current_time == W.now
        W1 == [W EXCEPT !.beacon_queue = cleanup_old_beacons(@, current_time),
                        !.checked = TRUE]
        W2 == IF FlushDue(current_time, W1.last_send_time)
              THEN AfterSend(send_adv_data([W1 EXCEPT !.send_called = TRUE,
                                                      !.q_send = W1.beacon_queue,
                                                      !.bits_send =
                                                          W1.adv_set_active_bitfield],
                                           x.g, x.set_err, x.start_err),
                             current_time)
              ELSE W1
    IN  Watchdog(W2, current_time, x)

(***************************************************************************)
(* The handlers.                                                           *)
(***************************************************************************)
\* device_found up to the test of the batch counter (part_000:151-230):
\* the parse, add_beacon and atomic_inc
Sighted(W, addr, rssi, ad, x) ==
    LET p == ParseAd(ad, DirectSighting, x.g)
        r == add_beacon(W.beacon_queue, addr, rssi, p.ttl, p.sequence,
                        p.temperature, p.voltage, W.now)
    IN  [W EXCEPT !.beacon_queue = r.q,
                  !.recorded = Recording(@, W.beacon_queue, r, p.sequence),
                  !.beacons_since_last_check = @ + 1,
                  !.op = "device_found",
                  !.sighting = [addr |-> addr, rssi |-> rssi, ttl |-> p.ttl,
                                sequence |-> p.sequence,
                                temperature |-> p.temperature,
                                voltage |-> p.voltage,
                                relay |-> p.sequence # 0 \/ p.ttl # INITIAL_TTL],
                  !.up_ret = r.ret,
                  !.q_up = r.q]

\* device_found (part_000:151-235); atomic_inc returns the value the
\* counter had before
device_found(W, addr, rssi, ad, x) ==
    LET W1 == Sighted(W, addr, rssi, ad, x)
    IN  IF W.beacons_since_last_check >= BEACON_BATCH_SIZE
        THEN [check_and_send(W1, x) EXCEPT !.beacons_since_last_check = 0]
        ELSE W1

RECURSIVE StopSets_force(_, _, _)
\* mutation of StopSets: a set whose stop failed is released all the same
StopSets_force(W, i, stop_err) ==
    IF i >= MAX_ADV_SETS
    THEN W
    ELSE IF i \in W.adv_sets /\ i \in W.adv_set_active_bitfield
         THEN StopSets_force([W EXCEPT !.adv_set_active_bitfield = @ \ {i},
                                      !.active_adv_sets = @ - 1,
                                      !.should_send = TRUE,
                                      !.stop_failed = IF stop_err[i] # 0
                                                      THEN @ \cup {i} ELSE @,
                                      !.released = IF stop_err[i] # 0 THEN @
                                                   ELSE Append(@, [set |-> i,
                                                                   was_active |-> TRUE])],
                             i + 1, stop_err)
         ELSE StopSets_force(W, i + 1, stop_err)

RECURSIVE StopSets(_, _, _)
\* the for loop of adv_work_handler from set i on (part_000:407-419);
\* stop_err[i] is the answer of bt_le_ext_adv_stop for set i
StopSets(W, i, stop_err) ==
    IF i >= MAX_ADV_SETS
    THEN W
    ELSE IF i \in W.adv_sets /\ i \in W.adv_set_active_bitfield
         THEN IF stop_err[i] # 0
              THEN StopSets([W EXCEPT !.stop_failed = @ \cup {i}], i + 1, stop_err)
              ELSE StopSets([W EXCEPT !.adv_set_active_bitfield = @ \ {i},
                                      !.active_adv_sets = @ - 1,
                                      !.should_send = TRUE,
                                      !.released = Append(@, [set |-> i,
                                                              was_active |-> TRUE])],
                            i + 1, stop_err)
         ELSE StopSets(W, i + 1, stop_err)

\* the number of calls of bt_le_ext_adv_stop that fail in the loop
StopFaults(W, stop_err) ==
    Cardinality({i \in W.adv_sets \cap W.adv_set_active_bitfield : stop_err[i] # 0})

\* adv_work_handler (part_000:403-426)
adv_work_handler(W, x) ==
    LET W1 == StopSets([W EXCEPT !.op = "adv_work_handler", !.should_send = FALSE,
                                 !.faults = @ + StopFaults(W, x.stop_err)],
                       0, x.stop_err)
        W2 == IF W1.should_send THEN check_and_send(W1, x) ELSE W1
    IN  [W2 EXCEPT !.work_due = W2.now + ADV_DURATION_MS]

\* bt_ready (part_000:466-492); err is the result of the initialisation,
\* created the number of advertising sets bt_le_ext_adv_create made before
\* one failed
bt_ready(W, err, created, scan_err) ==
    IF err # 0
    THEN [W EXCEPT !.op = "bt_ready", !.bt_ready_pending = FALSE, !.faults = @ + 1]
    ELSE IF created < MAX_ADV_SETS
         THEN [W EXCEPT !.op = "bt_ready", !.bt_ready_pending = FALSE,
                        !.adv_sets = @ \cup {i \in SetIds : i < created},
                        !.faults = @ + 1]
         ELSE [W EXCEPT !.op = "bt_ready", !.bt_ready_pending = FALSE,
                        !.adv_sets = SetIds,
                        !.work_due = W.now + ADV_DURATION_MS,
                        !.scanning = (scan_err = 0),
                        !.faults = IF scan_err # 0 THEN @ + 1 ELSE @,
                        !.last_successful_operation = W.now]

\* the handler's account of the sighting and of the hand-over, when it has
\* none to give
NoSighting ==
    [addr |-> ZeroAddr, rssi |-> 0, ttl |-> 0, sequence |-> 0, temperature |-> 0,
     voltage |-> 0, relay |-> FALSE]
NoHand == [set |-> -1, was_active |-> FALSE]

(***************************************************************************)
(* The aggregation variant (advertiser/src/main.c:315-732): records hold   *)
(* address, strongest rssi and last_seen; beacon_count counts them.  The   *)
(* scan loop, the calls of Transport in send_adv_data, the loop of         *)
(* adv_work_handler and bt_ready are the same code as in part_000.         *)
(***************************************************************************)
agg_beacon_info == [addr |-> ZeroAddr, rssi |-> 0, last_seen |-> 0, is_valid |-> FALSE]

\* mutation of find_or_update_beacon of the aggregation variant: the update
\* stores the rssi of the sighting, stronger or not
agg_find_or_update_beacon_last(q, beacon_count, addr, rssi, current_time) ==
    LET s == ScanSlots(q, addr, 0, -1)
        e == s.existing_slot
        f == s.empty_slot
    IN  IF e # -1
        THEN [q |-> [q EXCEPT ![e].rssi = rssi,
                              ![e].last_seen = current_time],
              ret |-> e, beacon_count |-> beacon_count]
        ELSE IF f # -1
             THEN [q |-> [q EXCEPT ![f] = [addr |-> addr, rssi |-> rssi,
                                           last_seen |-> current_time,
                                           is_valid |-> TRUE]],
                   ret |-> f, beacon_count |-> beacon_count + 1]
             ELSE [q |-> q, ret |-> -1, beacon_count |-> beacon_count]

\* find_or_update_beacon (main.c:369-403)
agg_find_or_update_beacon(q, beacon_count, addr, rssi, current_time) ==
    LET s == ScanSlots(q, addr, 0, -1)
        e == s.existing_slot
        f == s.empty_slot
    IN  IF e # -1
        THEN [q |-> [q EXCEPT ![e].rssi = IF rssi > @ THEN rssi ELSE @,
                              ![e].last_seen = current_time],
              ret |-> e, beacon_count |-> beacon_count]
        ELSE IF f # -1
             THEN [q |-> [q EXCEPT ![f] = [addr |-> addr, rssi |-> rssi,
                                           last_seen |-> current_time,
                                           is_valid |-> TRUE]],
                   ret |-> f, beacon_count |-> beacon_count + 1]
             ELSE [q |-> q, ret |-> -1, beacon_count |-> beacon_count]

\* the header (main.c:461-464); beacon_count is cast to uint8_t
agg_Header(beacon_count) == <<89, 0, 8, beacon_count % 256>>
\* the bytes written for one queue entry (main.c:508-510)
agg_EntryBytes(b) == b.addr.val \o <<I8ToByte(b.rssi)>>
\* the bytes written for the test device (main.c:494-499); rand is the
\* random rssi
agg_TestEntryBytes(rand) == TEST_DEVICE_ADDR \o <<I8ToByte(rand)>>

\* the condition under which the loop sends a queue entry (main.c:506-507)
agg_Sendable(b, current_time) ==
    b.is_valid /\ Sub32(current_time, b.last_seen) >= TIME_THRESHOLD

RECURSIVE agg_PackLoop(_, _, _, _, _, _, _)
\* the for loop of send_adv_data from index i on (main.c:503-517)
agg_PackLoop(q, i, buf, beacons_sent, packed, beacon_count, current_time) ==
    IF /\ i < NSlots(q)
       /\ beacons_sent < MAX_BEACONS_PER_SET
       /\ (MAX_EXT_ADV_DATA_LEN - Len(buf)) >= BEACON_DATA_SIZE
    THEN IF agg_Sendable(q[i], current_time)
         THEN agg_PackLoop([q EXCEPT ![i].is_valid = FALSE], i + 1,
                           buf \o agg_EntryBytes(q[i]), beacons_sent + 1,
                           Append(packed, [slot |-> i, beacon |-> q[i], at |-> Len(buf)]),
                           beacon_count - 1, current_time)
         ELSE agg_PackLoop(q, i + 1, buf, beacons_sent, packed, beacon_count,
                           current_time)
    ELSE [q |-> q, buf |-> buf, beacons_sent |-> beacons_sent, packed |-> packed,
          beacon_count |-> beacon_count]

\* send_adv_data up to the call of bt_le_ext_adv_set_data (main.c:454-527)
agg_PrepareAdv(W, rand) ==
    LET hdr == agg_Header(W.beacon_count)
        set_to_use == FirstInactiveSet(W.adv_set_active_bitfield)
    IN  IF set_to_use = -1
        THEN [W EXCEPT !.ad_data = hdr, !.ret = -EBUSY, !.set_to_use = -1,
                       !.packed = <<>>]
        ELSE LET room == (MAX_EXT_ADV_DATA_LEN - Len(hdr)) >= BEACON_DATA_SIZE
                 buf1 == IF room THEN hdr \o agg_TestEntryBytes(rand) ELSE hdr
                 r == agg_PackLoop(W.beacon_queue, 0, buf1, 0, <<>>, W.beacon_count,
                                   W.now)
             IN  [W EXCEPT !.beacon_queue = r.q, !.beacon_count = r.beacon_count,
                           !.ad_data = r.buf, !.ret = 0, !.test_device_added = room,
                           !.set_to_use = set_to_use, !.packed = r.packed]

\* send_adv_data (main.c:454-550)
agg_send_adv_data(W, rand, set_err, start_err) ==
    LET W1 == agg_PrepareAdv(W, rand)
    IN  IF W1.ret # 0 THEN W1 ELSE StartAdv(W1, set_err, start_err)

\* recover_from_hang (main.c:679-711)
agg_recover_from_hang(W, enable_err, scan_err) ==
    [recover_from_hang(W, enable_err, scan_err) EXCEPT !.beacon_count = 0]

\* the flush condition of check_and_send (main.c:563-564);
\* current_beacon_count is beacon_count read as uint32_t
agg_FlushDue(beacon_count, current_time, last_send_time) ==
    \/ beacon_count < 0
    \/ beacon_count >= MAX_BEACONS_PER_SET
    \/ Sub32(current_time, last_send_time) >= MAX_WAIT_TIME_MS

\* check_and_send (main.c:553-585)
agg_check_and_send(W, x) ==
    LET current_time == W.now
        W1 == [W EXCEPT !.checked = TRUE]
        W2 == IF agg_FlushDue(W1.beacon_count, current_time, W1.last_send_time)
              THEN AfterSend(agg_send_adv_data(
                                 [W1 EXCEPT !.send_called = TRUE,
                                            !.q_send = W1.beacon_queue,
                                            !.bits_send = W1.adv_set_active_bitfield],
                                 x.rand, x.set_err, x.start_err),
                             current_time)
              ELSE W1
    IN  IF RecoveryDue(current_time, W2.last_successful_operation)
        THEN agg_recover_from_hang(W2, x.enable_err, x.scan_err)
        ELSE W2

\* device_found (main.c:435-451)
agg_device_found(W, addr, rssi, x) ==
    LET r == agg_find_or_update_beacon(W.beacon_queue, W.beacon_count, addr, rssi,
                                       W.now)
        old == W.beacons_since_last_check
        W1 == [W EXCEPT !.beacon_queue = r.q,
                        !.beacon_count = r.beacon_count,
                        !.beacons_since_last_check = old + 1,
                        !.op = "device_found",
                        !.sighting = [NoSighting EXCEPT !.addr = addr, !.rssi = rssi],
                        !.up_ret = r.ret,
                        !.q_up = r.q]
    IN  IF old >= BEACON_BATCH_SIZE
        THEN [agg_check_and_send(W1, x) EXCEPT !.beacons_since_last_check = 0]
        ELSE W1

\* adv_work_handler (main.c:588-611)
agg_adv_work_handler(W, x) ==
    LET W1 == StopSets([W EXCEPT !.op = "adv_work_handler", !.should_send = FALSE],
                       0, x.stop_err)
        W2 == IF W1.should_send \/ W1.beacon_count > 0
              THEN agg_check_and_send(W1, x)
              ELSE W1
    IN  [W2 EXCEPT !.work_due = W2.now + ADV_DURATION_MS]

(***************************************************************************)
(* The ring-queue variant (main.c:1-313).  beacon_queue is a ring written  *)
(* at beacon_write_index and read at beacon_read_index; an entry is an     *)
(* address and an rssi, and n, the number of the sighting that wrote it,   *)
(* which the program does not have.                                        *)
(***************************************************************************)
rq_beacon_info == [addr |-> ZeroAddr, rssi |-> 0, n |-> 0]
rq_SetIds == 0..(rq_MAX_ADV_SETS - 1)

\* add_beacon (main.c:50-66)
rq_add_beacon(W, addr, rssi, n) ==
    LET write_index == W.beacon_write_index
        entry == [addr |-> addr, rssi |-> rssi, n |-> n]
    IN  [W EXCEPT !.beacon_queue = [@ EXCEPT ![write_index] = entry],
                  !.beacon_write_index = (write_index + 1) % rq_MAX_BEACONS,
                  !.beacon_count = @ + 1,
                  !.fifo = Append(@, entry)]

rq_Header(write_index) == <<98, 10, 0, write_index % 256>>
rq_EntryBytes(b) == b.addr.val \o <<I8ToByte(b.rssi)>>

RECURSIVE rq_PackLoop(_, _, _, _, _, _)
\* the while loop of send_adv_data (main.c:128-136)
rq_PackLoop(q, read_index, buf, beacons_sent, beacons_to_send, packed) ==
    IF /\ beacons_sent < beacons_to_send
       /\ (MAX_EXT_ADV_DATA_LEN - Len(buf)) >= rq_BEACON_DATA_SIZE
    THEN rq_PackLoop(q, (read_index + 1) % rq_MAX_BEACONS,
                     buf \o rq_EntryBytes(q[read_index]), beacons_sent + 1,
                     beacons_to_send,
                     Append(packed, [slot |-> read_index, beacon |-> q[read_index],
                                     at |-> Len(buf)]))
    ELSE [read_index |-> read_index, buf |-> buf, beacons_sent |-> beacons_sent,
          packed |-> packed]

\* the first set whose bit is clear (main.c:113-119)
rq_FirstInactiveSet(bits) ==
    IF \E i \in rq_SetIds : i \notin bits
    THEN CHOOSE i \in rq_SetIds : i \notin bits /\ \A j \in rq_SetIds : j \notin bits => i <= j
    ELSE -1

\* the entries of the list l after its first k
DropFirst(l, k) == IF k >= Len(l) THEN <<>> ELSE SubSeq(l, k + 1, Len(l))

\* send_adv_data (main.c:88-169); set_err and start_err are Transport's
\* answers.  The entries are taken out of the queue before Transport is
\* called (main.c:138-139, 151, 157).
rq_send_adv_data(W, set_err, start_err) ==
    LET hdr == rq_Header(W.beacon_write_index)
        total_beacons == W.beacon_count
        set_to_use == rq_FirstInactiveSet(W.adv_set_active_bitfield)
    IN  IF set_to_use = -1
        THEN [W EXCEPT !.ad_data = hdr, !.ret = -EBUSY, !.set_to_use = -1,
                       !.packed = <<>>, !.send_called = TRUE]
        ELSE LET beacons_to_send == IF total_beacons < rq_MAX_BEACONS_PER_SET
                                    THEN total_beacons ELSE rq_MAX_BEACONS_PER_SET
                 r == rq_PackLoop(W.beacon_queue, W.beacon_read_index, hdr, 0,
                                  beacons_to_send, <<>>)
                 W1 == [W EXCEPT !.beacon_read_index = r.read_index,
                                 !.beacon_count = @ - r.beacons_sent,
                                 !.ad_data = r.buf,
                                 !.set_to_use = set_to_use,
                                 !.packed = r.packed,
                                 !.send_called = TRUE,
                                 !.sends = Append(@, [packed |-> r.packed,
                                                      pending |-> W.fifo]),
                                 !.fifo = DropFirst(@, r.beacons_sent)]
             IN  IF set_err # 0
                 THEN [W1 EXCEPT !.ret = set_err, !.faults = @ + 1]
                 ELSE IF start_err # 0
                      THEN [W1 EXCEPT !.ret = start_err, !.faults = @ + 1]
                      ELSE [W1 EXCEPT !.adv_set_active_bitfield = @ \cup {set_to_use},
                                      !.active_adv_sets = @ + 1,
                                      !.handed = [set |-> set_to_use,
                                                  was_active |-> FALSE],
                                      !.ret = 0]

RECURSIVE rq_SendLoop(_, _, _, _)
\* the for loop of check_and_send from i on (main.c:189-197); the answers
\* x are those of the first send, the Transport calls of the others succeed
rq_SendLoop(W, i, sets_to_use, x) ==
    IF i >= sets_to_use
    THEN W
    ELSE LET W1 == rq_send_adv_data(W, IF i = 0 THEN x.set_err ELSE 0,
                                    IF i = 0 THEN x.start_err ELSE 0)
         IN  IF W1.beacon_count = 0
             THEN W1
             ELSE rq_SendLoop(W1, i + 1, sets_to_use, x)

\* check_and_send (main.c:172-203)
rq_check_and_send(W, x) ==
    LET current_time == W.now
        current_beacon_count == W.beacon_count
        W1 == [W EXCEPT !.checked = TRUE]
    IN  IF \/ current_beacon_count >= rq_BEACON_BATCH_SIZE
           \/ Sub32(current_time, W.last_send_time) >= rq_MAX_WAIT_TIME_MS
        THEN LET available_sets == rq_MAX_ADV_SETS - W.active_adv_sets
                 needed == (current_beacon_count + rq_MAX_BEACONS_PER_SET - 1)
                               \div rq_MAX_BEACONS_PER_SET
                 sets_to_use == IF available_sets < needed THEN available_sets
                                ELSE needed
             IN  [rq_SendLoop(W1, 0, sets_to_use, x) EXCEPT
                      !.last_send_time = current_time]
        ELSE W1

\* device_found (main.c:69-85); n is the number of the sighting
rq_device_found(W, addr, rssi, n, x) ==
    LET old == W.beacons_since_last_check
        W1 == [rq_add_beacon(W, addr, rssi, n) EXCEPT
                   !.op = "device_found",
                   !.beacons_since_last_check = old + 1]
    IN  IF old >= rq_BEACON_BATCH_SIZE
        THEN [rq_check_and_send(W1, x) EXCEPT !.beacons_since_last_check = 0]
        ELSE W1

RECURSIVE rq_StopSets(_, _, _)
\* the for loop of adv_work_handler from set i on (main.c:210-222)
rq_StopSets(W, i, stop_err) ==
    IF i >= rq_MAX_ADV_SETS
    THEN W
    ELSE IF i \in W.adv_sets /\ i \in W.adv_set_active_bitfield
         THEN IF stop_err[i] # 0
              THEN rq_StopSets([W EXCEPT !.stop_failed = @ \cup {i},
                                         !.faults = @ + 1],
                               i + 1, stop_err)
              ELSE rq_StopSets([W EXCEPT !.adv_set_active_bitfield = @ \ {i},
                                         !.active_adv_sets = @ - 1,
                                         !.should_send = TRUE,
                                         !.released = Append(@, [set |-> i,
                                                                 was_active |-> TRUE])],
                               i + 1, stop_err)
         ELSE rq_StopSets(W, i + 1, stop_err)

\* adv_work_handler (main.c:206-229)
rq_adv_work_handler(W, x) ==
    LET W1 == rq_StopSets([W EXCEPT !.op = "adv_work_handler", !.should_send = FALSE],
                          0, x.stop_err)
        W2 == IF W1.should_send THEN rq_check_and_send(W1, x) ELSE W1
    IN  [W2 EXCEPT !.work_due = W2.now + rq_ADV_DURATION_MS]

\* bt_ready (main.c:273-296); created is the number of advertising sets
\* bt_le_ext_adv_create made before one failed
rq_bt_ready(W, err, created, scan_err) ==
    IF err # 0
    THEN [W EXCEPT !.op = "bt_ready", !.bt_ready_pending = FALSE, !.faults = @ + 1]
    ELSE IF created < rq_MAX_ADV_SETS
         THEN [W EXCEPT !.op = "bt_ready", !.bt_ready_pending = FALSE,
                        !.adv_sets = @ \cup {i \in rq_SetIds : i < created},
                        !.faults = @ + 1]
         ELSE [W EXCEPT !.op = "bt_ready", !.bt_ready_pending = FALSE,
                        !.adv_sets = rq_SetIds,
                        !.work_due = W.now + rq_ADV_DURATION_MS,
                        !.scanning = (scan_err = 0),
                        !.faults = IF scan_err # 0 THEN @ + 1 ELSE @]

(***************************************************************************)
(* The two threads of part_000.  device_found runs on the Bluetooth RX     *)
(* thread ("rx"), adv_work_handler on the system workqueue ("wq"); no lock *)
(* is taken anywhere.  A thread gives up the processor where it waits for  *)
(* Transport: in bt_le_ext_adv_stop, in bt_le_ext_adv_set_data and in      *)
(* bt_le_ext_adv_start.  The handler is cut at these calls; threads[t]     *)
(* holds the position and the locals of thread t while it waits.  A call   *)
(* of bt_le_ext_adv_stop may fail at any tick.                             *)
(***************************************************************************)
Threads == {"rx", "wq"}
Idle == [pc |-> "idle", set_to_use |-> -1, current_time |-> 0, i |-> 0,
         should_send |-> FALSE]

\* the code of the handler after check_and_send has returned: device_found
\* resets the batch counter (part_000:233), adv_work_handler schedules the
\* next tick (part_000:425)
conc_return(W, t) ==
    IF t = "rx"
    THEN [W EXCEPT !.beacons_since_last_check = 0, !.threads[t] = Idle]
    ELSE [W EXCEPT !.work_due = W.now + ADV_DURATION_MS, !.threads[t] = Idle]

\* check_and_send after send_adv_data has returned (part_000:382-399)
conc_after_send(W, t, current_time, x) ==
    conc_return(Watchdog(AfterSend(W, current_time), current_time, x), t)

\* check_and_send up to the call of bt_le_ext_adv_set_data, or to its end
\* when send_adv_data is not called or returns before that call
conc_check_and_send(W, t, x) ==
    LET current_time == W.now
        W1 == [W EXCEPT !.beacon_queue = cleanup_old_beacons(@, current_time),
                        !.checked = TRUE]
    IN  IF FlushDue(current_time, W1.last_send_time)
        THEN LET W2 == PrepareAdv([W1 EXCEPT !.send_called = TRUE,
                                             !.q_send = W1.beacon_queue,
                                             !.bits_send = W1.adv_set_active_bitfield],
                                  x.g)
             IN  IF W2.ret = 0
                 THEN [W2 EXCEPT !.threads[t] =
                                     [Idle EXCEPT !.pc = "set_data",
                                                  !.set_to_use = W2.set_to_use,
                                                  !.current_time = current_time]]
                 ELSE conc_after_send(W2, t, current_time, x)
        ELSE conc_return(Watchdog(W1, current_time, x), t)

\* device_found (part_000:151-235) up to the first wait
conc_device_found(W, addr, rssi, ad, x) ==
    LET W1 == Sighted(W, addr, rssi, ad, x)
    IN  IF W.beacons_since_last_check >= BEACON_BATCH_SIZE
        THEN conc_check_and_send(W1, "rx", x)
        ELSE W1

RECURSIVE conc_stop_loop(_, _, _)
\* the for loop of adv_work_handler from set i on, up to the next call of
\* bt_le_ext_adv_stop (part_000:407-409), or to the first wait after the
\* loop (part_000:421-425)
conc_stop_loop(W, i, x) ==
    IF i >= MAX_ADV_SETS
    THEN IF W.should_send
         THEN conc_check_and_send(W, "wq", x)
         ELSE conc_return(W, "wq")
    ELSE IF i \in W.adv_sets /\ i \in W.adv_set_active_bitfield
         THEN [W EXCEPT !.threads["wq"] = [Idle EXCEPT !.pc = "stop", !.i = i,
                                                       !.should_send = W.should_send]]
         ELSE conc_stop_loop(W, i + 1, x)

\* adv_work_handler (part_000:403-426) up to the first wait
conc_adv_work_handler(W, x) ==
    conc_stop_loop([W EXCEPT !.op = "adv_work_handler", !.should_send = FALSE], 0, x)

\* bt_le_ext_adv_stop returns err to the workqueue thread (part_000:409-418);
\* the bit of the set is cleared and the counter decremented whatever the
\* other thread did in between
conc_stop_returns(W, err, x) ==
    LET i == W.threads["wq"].i
        W1 == [W EXCEPT !.op = "stop_returns",
                        !.should_send = W.threads["wq"].should_send]
    IN  IF err # 0
        THEN conc_stop_loop([W1 EXCEPT !.stop_failed = @ \cup {i}], i + 1, x)
        ELSE conc_stop_loop(
                 [W1 EXCEPT !.adv_set_active_bitfield = @ \ {i},
                            !.active_adv_sets = @ - 1,
                            !.should_send = TRUE,
                            !.released = Append(@, [set |-> i,
                                                    was_active |-> i \in
                                                        W.adv_set_active_bitfield])],
                 i + 1, x)

\* bt_le_ext_adv_set_data returns err to thread t (part_000:344-350)
conc_set_data_returns(W, t, err, x) ==
    IF err # 0
    THEN conc_after_send([W EXCEPT !.op = "set_data_returns", !.ret = err,
                                   !.faults = @ + 1],
                         t, W.threads[t].current_time, x)
    ELSE [W EXCEPT !.op = "set_data_returns", !.threads[t].pc = "start"]

\* bt_le_ext_adv_start returns err to thread t (part_000:350-364)
conc_start_returns(W, t, err, x) ==
    LET set_to_use == W.threads[t].set_to_use
    IN  IF err # 0
        THEN conc_after_send([W EXCEPT !.op = "start_returns", !.ret = err,
                                       !.faults = @ + 1],
                             t, W.threads[t].current_time, x)
        ELSE conc_after_send(
                 [W EXCEPT !.op = "start_returns",
                           !.adv_set_active_bitfield = @ \cup {set_to_use},
                           !.active_adv_sets = @ + 1,
                           !.handed = [set |-> set_to_use,
                                       was_active |-> set_to_use \in
                                                      W.adv_set_active_bitfield],
                           !.ret = 0],
                 t, W.threads[t].current_time, x)

(***************************************************************************)
(* State.  The program's statics (part_000:38-46, 251; beacon_count is the *)
(* aggregation variant's, main.c:346), the clock, the                      *)
(* pending work item and callback, the time recover_from_hang last ran     *)
(* (-1: never), recorded: for each slot the sequences recorded for its     *)
(* record since it was inserted, relayed: the reports (address and last    *)
(* sequence) of the records sent so far, and ev: what the last handler     *)
(* did.  beacon_write_index and beacon_read_index are the indices of the   *)
(* ring-queue variant, the first program of main.c; fifo lists the entries *)
(* it has added and not yet taken out, oldest first.                       *)
(***************************************************************************)
VARIABLES beacon_queue, beacon_count, active_adv_sets, adv_set_active_bitfield, adv_sets,
          beacons_since_last_check, last_successful_operation, last_send_time,
          global_sequence, ad_data, now, work_due, bt_ready_pending, scanning,
          sightings, faults, threads, last_recovery, recorded, relayed,
          beacon_write_index, beacon_read_index, fifo, ev

vars == <<beacon_queue, beacon_count, active_adv_sets, adv_set_active_bitfield, adv_sets,
          beacons_since_last_check, last_successful_operation, last_send_time,
          global_sequence, ad_data, now, work_due, bt_ready_pending, scanning,
          sightings, faults, threads, last_recovery, recorded, relayed,
          beacon_write_index, beacon_read_index, fifo, ev>>

\* the record a handler starts from: the statics and an empty account of
\* what it did
World ==
    [beacon_queue |-> beacon_queue, beacon_count |-> beacon_count,
     active_adv_sets |-> active_adv_sets,
     adv_set_active_bitfield |-> adv_set_active_bitfield, adv_sets |-> adv_sets,
     beacons_since_last_check |-> beacons_since_last_check,
     last_successful_operation |-> last_successful_operation,
     last_send_time |-> last_send_time, global_sequence |-> global_sequence,
     ad_data |-> ad_data, now |-> now, work_due |-> work_due,
     bt_ready_pending |-> bt_ready_pending, scanning |-> scanning,
     faults |-> faults, threads |-> threads, last_recovery |-> last_recovery,
     recorded |-> recorded, relayed |-> relayed,
     beacon_write_index |-> beacon_write_index,
     beacon_read_index |-> beacon_read_index, fifo |-> fifo, sends |-> <<>>,
     op |-> "none", sighting |-> NoSighting, up_ret |-> -1, q_up |-> <<>>,
     test_ret |-> -1, test_device_added |-> FALSE,
     checked |-> FALSE, send_called |-> FALSE, q_send |-> <<>>, bits_send |-> {},
     ret |-> 0, set_to_use |-> -1, packed |-> <<>>, handed |-> NoHand,
     recovered |-> FALSE, q_recover |-> <<>>, should_send |-> FALSE,
     released |-> <<>>, stop_failed |-> {}]

Event(W) ==
    [op |-> W.op, sighting |-> W.sighting, up_ret |-> W.up_ret, q_up |-> W.q_up,
     test_ret |-> W.test_ret, test_device_added |-> W.test_device_added,
     checked |-> W.checked, send_called |-> W.send_called, q_send |-> W.q_send,
     bits_send |-> W.bits_send, ret |-> W.ret, set_to_use |-> W.set_to_use,
     packed |-> W.packed, handed |-> W.handed, recovered |-> W.recovered,
     q_recover |-> W.q_recover, should_send |-> W.should_send,
     released |-> W.released, stop_failed |-> W.stop_failed, sends |-> W.sends]

Commit(W) ==
    /\ beacon_queue' = W.beacon_queue
    /\ beacon_count' = W.beacon_count
    /\ active_adv_sets' = W.active_adv_sets
    /\ adv_set_active_bitfield' = W.adv_set_active_bitfield
    /\ adv_sets' = W.adv_sets
    /\ beacons_since_last_check' = W.beacons_since_last_check
    /\ last_successful_operation' = W.last_successful_operation
    /\ last_send_time' = W.last_send_time
    /\ global_sequence' = W.global_sequence
    /\ ad_data' = W.ad_data
    /\ now' = W.now
    /\ work_due' = W.work_due
    /\ bt_ready_pending' = W.bt_ready_pending
    /\ scanning' = W.scanning
    /\ faults' = W.faults
    /\ threads' = W.threads
    /\ last_recovery' = W.last_recovery
    /\ recorded' = W.recorded
    /\ relayed' = W.relayed
    /\ beacon_write_index' = W.beacon_write_index
    /\ beacon_read_index' = W.beacon_read_index
    /\ fifo' = W.fifo
    /\ ev' = Event(W)

(***************************************************************************)
(* Inputs: sightings and the answers of Transport.                         *)
(***************************************************************************)
Errs == {0, -EIO}
NoStopErr == [i \in SetIds |-> 0]
NoAnswers ==
    [g |-> 0, set_err |-> 0, start_err |-> 0, enable_err |-> 0, scan_err |-> 0,
     stop_err |-> NoStopErr]
\* the answers with one failing call
OneFault ==
    {[NoAnswers EXCEPT !.set_err = -EIO], [NoAnswers EXCEPT !.start_err = -EIO],
     [NoAnswers EXCEPT !.enable_err = -EIO]}
    \cup {[NoAnswers EXCEPT !.stop_err = [NoStopErr EXCEPT ![i] = -EIO]] : i \in SetIds}
\* the answers of Transport to one run of a handler: at most one call fails
\* in a run, and at most MaxFaults calls fail in all
AnswersWithin(max_faults) ==
    {[x EXCEPT !.g = g, !.scan_err = e] :
        x \in {NoAnswers} \cup (IF faults < max_faults THEN OneFault ELSE {}),
        g \in StrayBytes, e \in Errs}
Answers == AnswersWithin(MaxFaults)
ParseAnswers == {[NoAnswers EXCEPT !.g = g] : g \in StrayBytes}

\* the answers to one run of a handler of the aggregation variant: rand is
\* the random rssi of the test device; bt_le_ext_adv_stop may fail for any
\* of the sets at any tick, at most MaxFaults other calls fail in all
AggRand == {-50, 0}
AggAnswers ==
    {[rand |-> r, set_err |-> 0, start_err |-> e, enable_err |-> 0, scan_err |-> 0,
      stop_err |-> f] :
        r \in AggRand,
        e \in IF faults < MaxFaults THEN Errs ELSE {0},
        f \in [SetIds -> Errs]}

\* a legacy advertisement with flags only
PlainAd == <<2, 1, 6>>
\* a relay's extended advertisement: manufacturer data with the header
\* carrying sequence s and TTL byte t, and one entry
RelayAd(s, t) == <<18, BT_DATA_MANUFACTURER_DATA, 89, 0, 8, s, t>> \o TestEntryBytes
\* an Eddystone TLM frame: 3000 mV, temperature 0x1400
TlmAd ==
    <<3, 3, 170, 254,
      17, BT_DATA_SVC_DATA16, 170, 254, 32, 0, 11, 184, 20, 0, 0, 0, 0, 1, 0, 0, 0, 9>>

\* the sightings delivered by the scanner.  BeaconAddr is a beacon, sighted
\* directly.  RelayAddr is another relay: its advertisements carry the relay
\* header, as this program sends it (TTL byte INITIAL_TTL), with TTL byte 0,
\* or with a TTL byte above INITIAL_TTL and followed by a TLM frame.
BeaconAddr == DeviceAddr(1)
RelayAddr == DeviceAddr(2)
Sightings ==
    {[addr |-> BeaconAddr, rssi |-> -70, ad |-> PlainAd],
     [addr |-> RelayAddr, rssi |-> -40, ad |-> RelayAd(7, INITIAL_TTL)],
     [addr |-> RelayAddr, rssi |-> -70, ad |-> RelayAd(9, 0)],
     [addr |-> RelayAddr, rssi |-> -55, ad |-> RelayAd(8, INITIAL_TTL + 2) \o TlmAd]}

\* the sightings of the aggregation variant: two beacons, one of them at
\* two signal strengths
AggSightings ==
    {[addr |-> BeaconAddr, rssi |-> -70], [addr |-> BeaconAddr, rssi |-> -40],
     [addr |-> RelayAddr, rssi |-> -55]}

LoneSightings == {[addr |-> BeaconAddr, rssi |-> -70, ad |-> PlainAd]}

(***************************************************************************)
(* Init: main has called bt_enable; bt_ready has not run yet.              *)
(***************************************************************************)
Init ==
    /\ beacon_queue = [i \in 0..(MAX_BEACONS - 1) |-> beacon_info]
    /\ beacon_count = 0
    /\ active_adv_sets = 0
    /\ adv_set_active_bitfield = {}
    /\ adv_sets = {}
    /\ beacons_since_last_check = 0
    /\ last_successful_operation = 0
    /\ last_send_time = 0
    /\ global_sequence = 0
    /\ ad_data = <<>>
    /\ now = 0
    /\ work_due = -1
    /\ bt_ready_pending = TRUE
    /\ scanning = FALSE
    /\ sightings = 0
    /\ faults = 0
    /\ threads = [t \in Threads |-> Idle]
    /\ last_recovery = -1
    /\ recorded = [i \in DOMAIN beacon_queue |-> <<>>]
    /\ relayed = {}
    /\ beacon_write_index = 0
    /\ beacon_read_index = 0
    /\ fifo = <<>>
    /\ ev = Event(World)

(***************************************************************************)
(* Actions: one per handler, and the clock.                                *)
(***************************************************************************)
BtReadyWithin(max_faults) ==
    /\ bt_ready_pending
    /\ \E W \in {bt_ready(World, a[1], a[2], a[3]) :
                     a \in {<<0, MAX_ADV_SETS, 0>>} \cup
                           (IF faults < max_faults
                            THEN {<<-EIO, 0, 0>>, <<0, MAX_ADV_SETS, -EIO>>}
                                 \cup {<<0, c, 0>> : c \in 0..(MAX_ADV_SETS - 1)}
                            ELSE {})} :
          Commit(W)
    /\ UNCHANGED sightings

BtReady == BtReadyWithin(MaxFaults)

\* the scanner reports at most max sightings, drawn from S, and no two of
\* them back to back: the clock or the workqueue runs in between
ReportWithin(S, max, max_faults) ==
    /\ scanning
    /\ sightings < max
    /\ ev.op # "device_found"
    /\ sightings' = sightings + 1
    /\ \E W \in {device_found(World, s.addr, s.rssi, s.ad, x) :
                     s \in S,
                     x \in IF beacons_since_last_check >= BEACON_BATCH_SIZE
                           THEN AnswersWithin(max_faults) ELSE ParseAnswers} :
          Commit(W)

Report(S, max) == ReportWithin(S, max, MaxFaults)

DeviceFound == Report(Sightings, MaxSightings)

\* one beacon in range, sighted over and over
LoneDeviceFound == Report(LoneSightings, MaxLoneSightings)

AdvWorkHandlerWithin(max_faults) ==
    /\ work_due # -1
    /\ now >= work_due
    /\ \E W \in {adv_work_handler(World, x) : x \in AnswersWithin(max_faults)} :
          Commit(W)
    /\ UNCHANGED sightings

AdvWorkHandler == AdvWorkHandlerWithin(MaxFaults)

\* the clock; a handler that is due runs before the clock moves on
AdvanceTime ==
    /\ ~bt_ready_pending
    /\ work_due = -1 \/ now < work_due
    /\ now + TimeStep <= MaxTime
    /\ Commit([World EXCEPT !.now = now + TimeStep])
    /\ UNCHANGED sightings

Next == BtReady \/ DeviceFound \/ AdvWorkHandler \/ AdvanceTime

Spec == Init /\ [][Next]_vars

(***************************************************************************)
(* The aggregation variant as a state machine.                             *)
(***************************************************************************)
InitAgg ==
    /\ beacon_queue = [i \in 0..(MAX_BEACONS - 1) |-> agg_beacon_info]
    /\ beacon_count = 0
    /\ active_adv_sets = 0
    /\ adv_set_active_bitfield = {}
    /\ adv_sets = {}
    /\ beacons_since_last_check = 0
    /\ last_successful_operation = 0
    /\ last_send_time = 0
    /\ global_sequence = 0
    /\ ad_data = <<>>
    /\ now = 0
    /\ work_due = -1
    /\ bt_ready_pending = TRUE
    /\ scanning = FALSE
    /\ sightings = 0
    /\ faults = 0
    /\ threads = [t \in Threads |-> Idle]
    /\ last_recovery = -1
    /\ recorded = [i \in DOMAIN beacon_queue |-> <<>>]
    /\ relayed = {}
    /\ beacon_write_index = 0
    /\ beacon_read_index = 0
    /\ fifo = <<>>
    /\ ev = Event(World)

AggDeviceFound ==
    /\ scanning
    /\ sightings < MaxAggSightings
    /\ ev.op # "device_found"
    /\ sightings' = sightings + 1
    /\ \E W \in {agg_device_found(World, s.addr, s.rssi, x) :
                     s \in AggSightings,
                     x \in IF beacons_since_last_check >= BEACON_BATCH_SIZE
                           THEN AggAnswers ELSE {NoAnswers}} :
          Commit(W)

AggAdvWorkHandler ==
    /\ work_due # -1
    /\ now >= work_due
    /\ \E W \in {agg_adv_work_handler(World, x) : x \in AggAnswers} :
          Commit(W)
    /\ UNCHANGED sightings

NextAgg == BtReady \/ AggDeviceFound \/ AggAdvWorkHandler \/ AdvanceTime

SpecAgg == InitAgg /\ [][NextAgg]_vars

(***************************************************************************)
(* The ring-queue variant as a state machine.  The scanner reports one     *)
(* beacon again and again (the queue does not look at the address);        *)
(* sightings may follow one another within a clock step.                   *)
(***************************************************************************)
InitRq ==
    /\ beacon_queue = [i \in 0..(rq_MAX_BEACONS - 1) |-> rq_beacon_info]
    /\ beacon_count = 0
    /\ active_adv_sets = 0
    /\ adv_set_active_bitfield = {}
    /\ adv_sets = {}
    /\ beacons_since_last_check = 0
    /\ last_successful_operation = 0
    /\ last_send_time = 0
    /\ global_sequence = 0
    /\ ad_data = <<>>
    /\ now = 0
    /\ work_due = -1
    /\ bt_ready_pending = TRUE
    /\ scanning = FALSE
    /\ sightings = 0
    /\ faults = 0
    /\ threads = [t \in Threads |-> Idle]
    /\ last_recovery = -1
    /\ recorded = [i \in DOMAIN beacon_queue |-> <<>>]
    /\ relayed = {}
    /\ beacon_write_index = 0
    /\ beacon_read_index = 0
    /\ fifo = <<>>
    /\ ev = Event(World)

\* the answers of Transport to one run of a handler of the ring-queue
\* variant: at most MaxFaults calls fail in all
rq_Answers ==
    {[set_err |-> 0, start_err |-> 0, stop_err |-> [i \in rq_SetIds |-> 0]]}
    \cup (IF faults < MaxFaults
          THEN {[set_err |-> -EIO, start_err |-> 0, stop_err |-> [i \in rq_SetIds |-> 0]],
                [set_err |-> 0, start_err |-> -EIO, stop_err |-> [i \in rq_SetIds |-> 0]]}
               \cup {[set_err |-> 0, start_err |-> 0,
                      stop_err |-> [i \in rq_SetIds |-> IF i = k THEN -EIO ELSE 0]] :
                         k \in rq_SetIds}
          ELSE {})

RqSightings ==
    {[addr |-> BeaconAddr, rssi |-> -70]}

RqBtReady ==
    /\ bt_ready_pending
    /\ \E W \in {rq_bt_ready(World, a[1], a[2], a[3]) :
                     a \in {<<0, rq_MAX_ADV_SETS, 0>>} \cup
                           (IF faults < MaxFaults
                            THEN {<<-EIO, 0, 0>>, <<0, rq_MAX_ADV_SETS, -EIO>>}
                                 \cup {<<0, c, 0>> : c \in 0..(rq_MAX_ADV_SETS - 1)}
                            ELSE {})} :
          Commit(W)
    /\ UNCHANGED sightings

RqDeviceFound ==
    /\ scanning
    /\ sightings < MaxRqSightings
    /\ sightings' = sightings + 1
    /\ \E W \in {rq_device_found(World, s.addr, s.rssi, sightings + 1, x) :
                     s \in RqSightings, x \in rq_Answers} :
          Commit(W)

RqAdvWorkHandler ==
    /\ work_due # -1
    /\ now >= work_due
    /\ \E W \in {rq_adv_work_handler(World, x) : x \in rq_Answers} :
          Commit(W)
    /\ UNCHANGED sightings

NextRq == RqBtReady \/ RqDeviceFound \/ RqAdvWorkHandler \/ AdvanceTime

SpecRq == InitRq /\ [][NextRq]_vars

(***************************************************************************)
(* The serializers on their own: send_adv_data of either variant is called *)
(* on a store of PackSlots slots.  The first n slots hold valid records;   *)
(* the first z of them have no hops left, the last f of them are fresh.    *)
(***************************************************************************)
PackRecord(i, n, z, f) ==
    [beacon_info EXCEPT !.addr = DeviceAddr(i + 1),
                        !.rssi = -40 - i,
                        !.is_valid = i < n,
                        !.ttl = IF i < z THEN 0 ELSE INITIAL_TTL,
                        !.last_seen = IF i >= n - f THEN MaxTime
                                      ELSE MaxTime - TIME_THRESHOLD,
                        !.last_sequence = 1,
                        !.sequence_history = [@ EXCEPT ![0] = 1],
                        !.history_index = 1]

TtlStores ==
    {[i \in 0..(PackSlots - 1) |-> PackRecord(i, n, z, f)] :
        n \in 0..PackSlots, z \in {0, 1, 3}, f \in {0, 2}}

\* a record of the aggregation variant with the fields it shares with r
agg_Record(r) ==
    [addr |-> r.addr, rssi |-> r.rssi, last_seen |-> r.last_seen, is_valid |-> r.is_valid]

AggStores == {[i \in DOMAIN q |-> agg_Record(q[i])] : q \in TtlStores}

IsTtlStore(q) == "ttl" \in DOMAIN q[0]

InitPack ==
    /\ beacon_queue \in TtlStores \cup AggStores
    /\ beacon_count = Cardinality(ValidSlots(beacon_queue))
    /\ active_adv_sets = 0
    /\ adv_set_active_bitfield = {}
    /\ adv_sets = SetIds
    /\ beacons_since_last_check = 0
    /\ last_successful_operation = MaxTime - TIME_THRESHOLD
    /\ last_send_time = 0
    /\ global_sequence \in {0, 255}
    /\ ad_data = <<>>
    /\ now = MaxTime
    /\ work_due = MaxTime
    /\ bt_ready_pending = FALSE
    /\ scanning = TRUE
    /\ sightings = 0
    /\ faults = 0
    /\ threads = [t \in Threads |-> Idle]
    /\ last_recovery = -1
    /\ recorded = [i \in DOMAIN beacon_queue |->
                      IF IsTtlStore(beacon_queue)
                      THEN <<beacon_queue[i].last_sequence>> ELSE <<>>]
    /\ relayed = {}
    /\ beacon_write_index = 0
    /\ beacon_read_index = 0
    /\ fifo = <<>>
    /\ ev = Event(World)

\* the state send_adv_data is called in, with the account of the call
Called(name) ==
    [World EXCEPT !.op = name, !.send_called = TRUE, !.q_send = beacon_queue,
                  !.bits_send = adv_set_active_bitfield]

PackSend ==
    /\ IsTtlStore(beacon_queue)
    /\ \E W \in {send_adv_data(Called("send_adv_data"), g, 0, 0) : g \in StrayBytes} :
          Commit(W)
    /\ UNCHANGED sightings

AggPackSend ==
    /\ ~IsTtlStore(beacon_queue)
    /\ \E W \in {agg_send_adv_data(Called("agg_send_adv_data"), r, 0, 0) :
                     r \in AggRand} :
          Commit(W)
    /\ UNCHANGED sightings

NextPack == PackSend \/ AggPackSend

SpecPack == InitPack /\ [][NextPack]_vars

(***************************************************************************)
(* The two threads as a state machine, with a single beacon in range.      *)
(***************************************************************************)
ConcDeviceFound ==
    /\ threads["rx"].pc = "idle"
    /\ scanning
    /\ sightings < MaxLoneSightings
    /\ ev.op # "device_found"
    /\ sightings' = sightings + 1
    /\ \E W \in {conc_device_found(World, s.addr, s.rssi, s.ad, x) :
                     s \in LoneSightings,
                     x \in IF beacons_since_last_check >= BEACON_BATCH_SIZE
                           THEN Answers ELSE ParseAnswers} :
          Commit(W)

ConcAdvWorkHandler ==
    /\ threads["wq"].pc = "idle"
    /\ work_due # -1
    /\ now >= work_due
    /\ \E W \in {conc_adv_work_handler(World, x) : x \in Answers} :
          Commit(W)
    /\ UNCHANGED sightings

SetDataReturns ==
    /\ \E t \in Threads :
          /\ threads[t].pc = "set_data"
          /\ \E W \in {conc_set_data_returns(World, t, x.set_err, x) : x \in Answers} :
                Commit(W)
    /\ UNCHANGED sightings

StartReturns ==
    /\ \E t \in Threads :
          /\ threads[t].pc = "start"
          /\ \E W \in {conc_start_returns(World, t, x.start_err, x) : x \in Answers} :
                Commit(W)
    /\ UNCHANGED sightings

StopReturns ==
    /\ threads["wq"].pc = "stop"
    /\ \E W \in {conc_stop_returns(World, e, x) : e \in Errs, x \in Answers} :
          Commit(W)
    /\ UNCHANGED sightings

\* the clock stands while a thread waits for Transport
ConcAdvanceTime ==
    /\ \A t \in Threads : threads[t].pc = "idle"
    /\ AdvanceTime

NextConc ==
    \/ BtReady
    \/ ConcDeviceFound
    \/ ConcAdvWorkHandler
    \/ StopReturns
    \/ SetDataReturns
    \/ StartReturns
    \/ ConcAdvanceTime

SpecConc == Init /\ [][NextConc]_vars

\* the program with a single beacon in range
NextLone == BtReady \/ LoneDeviceFound \/ AdvWorkHandler \/ AdvanceTime

SpecLone == Init /\ [][NextLone]_vars

(***************************************************************************)
(* The program with a single beacon in range and a Transport that fails    *)
(* up to MaxStallFaults times.                                             *)
(***************************************************************************)
StallBtReady == BtReadyWithin(MaxStallFaults)
StallDeviceFound == ReportWithin(LoneSightings, MaxLoneSightings, MaxStallFaults)
StallAdvWorkHandler == AdvWorkHandlerWithin(MaxStallFaults)

NextStall == StallBtReady \/ StallDeviceFound \/ StallAdvWorkHandler \/ AdvanceTime

SpecStall == Init /\ [][NextStall]_vars

(***************************************************************************)
(* The program with a single relay in range and a Transport that never     *)
(* fails.  Each advertisement of the relay carries a sequence it has not   *)
(* used before or, from the third on, its first sequence again.            *)
(***************************************************************************)
RingSightings ==
    {[addr |-> RelayAddr, rssi |-> -40, ad |-> RelayAd(s, INITIAL_TTL)] :
        s \in {sightings + 1} \cup (IF sightings >= 2 THEN {1} ELSE {})}

RingBtReady == BtReadyWithin(0)
RingDeviceFound == ReportWithin(RingSightings, MaxRingSightings, 0)
RingAdvWorkHandler == AdvWorkHandlerWithin(0)

NextRing == RingBtReady \/ RingDeviceFound \/ RingAdvWorkHandler \/ AdvanceTime

SpecRing == Init /\ [][NextRing]_vars

(***************************************************************************)
(* The program with a single relay in range whose advertisement, one       *)
(* payload with one sequence number, is sighted again and again.           *)
(***************************************************************************)
ReplaySightings == {[addr |-> RelayAddr, rssi |-> -40, ad |-> RelayAd(7, INITIAL_TTL)]}

ReplayDeviceFound == Report(ReplaySightings, MaxLoneSightings)

NextReplay == BtReady \/ ReplayDeviceFound \/ AdvWorkHandler \/ AdvanceTime

SpecReplay == Init /\ [][NextReplay]_vars

(***************************************************************************)
(* The program with a single beacon in range, a Transport that never       *)
(* fails, and fair scheduling: the stack calls bt_ready once enabled, the  *)
(* clock advances, and the work queue runs adv_work_handler when its delay *)
(* has passed.  Nothing obliges the scanner to report a sighting.          *)
(***************************************************************************)
LiveBtReady == BtReadyWithin(0)
LiveDeviceFound == ReportWithin(LoneSightings, MaxLoneSightings, 0)
LiveAdvWorkHandler == AdvWorkHandlerWithin(0)

NextLive == LiveBtReady \/ LiveDeviceFound \/ LiveAdvWorkHandler \/ AdvanceTime

SpecLive ==
    /\ Init
    /\ [][NextLive]_vars
    /\ WF_vars(LiveBtReady)
    /\ WF_vars(LiveAdvWorkHandler)
    /\ WF_vars(AdvanceTime)

(***************************************************************************)
(* Properties.  ev is the account of the handler that produced the state;  *)
(* an action formula compares it with the state the handler started from.  *)
(***************************************************************************)
\* the valid records of q whose address is addr
SlotsOf(q, addr) == {i \in ValidSlots(q) : q[i].addr = addr}
\* every slot of q holds a valid record, none of them for addr
FullFor(q, addr) == ValidSlots(q) = DOMAIN q /\ SlotsOf(q, addr) = {}
\* the addresses the test device is stored under
TestAddrs == {TestAddrLe(g) : g \in StrayBytes}

\* C2: the store never holds more than MAX_BEACONS valid records, and an
\* upsert of a new address into a store whose slots are all valid returns -1
\* and leaves the store as it was.  Both calls of add_beacon are covered: the
\* one of device_found and the one send_adv_data makes for the test device.
C2_Capacity ==
    [][/\ Cardinality(ValidSlots(beacon_queue')) <= MAX_BEACONS
       /\ (ev'.op = "device_found" /\ FullFor(beacon_queue, ev'.sighting.addr))
            => (ev'.up_ret = -1 /\ ev'.q_up = beacon_queue)
       /\ (ev'.test_device_added /\ ValidSlots(ev'.q_send) = DOMAIN ev'.q_send)
            => \/ ev'.test_ret = -1
               \/ /\ ev'.test_ret \in SlotsOf(ev'.q_send, ev'.q_send[ev'.test_ret].addr)
                  /\ ev'.q_send[ev'.test_ret].addr \in TestAddrs]_vars

\* C2 witness: send_adv_data upserted the test device into a store whose
\* slots all held valid records of other addresses, and got -1
C2_Witness ==
    /\ ev.test_device_added
    /\ ev.test_ret = -1
    /\ ValidSlots(ev.q_send) = DOMAIN ev.q_send
    /\ \A a \in TestAddrs : SlotsOf(ev.q_send, a) = {}

\* sequence is the last sequence of record b or is in its history
SeenBy(b, sequence) ==
    sequence = b.last_sequence \/ \E k \in HistIdx : b.sequence_history[k] = sequence

\* C3: an upsert for an address that is valid in the store, with a sequence
\* the record has seen, returns the slot of that record and changes no
\* field of any record.
C3_DuplicateNoOp ==
    [][(/\ ev'.op = "device_found"
        /\ \E i \in SlotsOf(beacon_queue, ev'.sighting.addr) :
              SeenBy(beacon_queue[i], ev'.sighting.sequence))
         => /\ ev'.up_ret \in SlotsOf(beacon_queue, ev'.sighting.addr)
            /\ ev'.q_up = beacon_queue]_vars

\* C3 witness: a relay's packet with sequence 7 is sighted again, later
\* than the first time, after a packet with another sequence; the record
\* keeps the time of the other packet and both sequences in its history
C3_Witness ==
    /\ ev.op = "device_found"
    /\ ev.up_ret >= 0
    /\ ev.sighting.sequence = 7
    /\ ev.q_up[ev.up_ret].addr = ev.sighting.addr
    /\ ev.q_up[ev.up_ret].last_sequence # 7
    /\ ev.q_up[ev.up_ret].history_index = 2
    /\ ev.q_up[ev.up_ret].last_seen < now

\* C4: no two valid records of the store have the same address.
C4_UniqueAddress ==
    \A i, j \in ValidSlots(beacon_queue) :
        beacon_queue[i].addr = beacon_queue[j].addr => i = j

\* C4 witness: an upsert found the record of its address in slot 1 while
\* slot 0, below it, was free
C4_Witness ==
    /\ ev.op = "device_found"
    /\ ev.up_ret = 1
    /\ ~ev.q_up[0].is_valid
    /\ ev.q_up[1].is_valid

\* C5: the ttl of every valid record lies in 0..INITIAL_TTL, and the ttl of
\* a record that stays in its slot grows only by a sighting of its address
\* that carries no relay header.
C5_TtlBounded ==
    [][/\ \A i \in ValidSlots(beacon_queue') :
             beacon_queue'[i].ttl \in 0..INITIAL_TTL
       /\ \A i \in ValidSlots(beacon_queue) \cap ValidSlots(beacon_queue') :
             (/\ beacon_queue'[i].addr = beacon_queue[i].addr
              /\ beacon_queue'[i].ttl > beacon_queue[i].ttl)
               => /\ ev'.op = "device_found"
                  /\ ev'.sighting.addr = beacon_queue[i].addr
                  /\ ~ev'.sighting.relay]_vars

\* C6: every entry send_adv_data writes comes from a valid record whose ttl
\* is above 0, and the ttl byte of the entry in the buffer is that ttl.
C6_NoZeroTtlPacked ==
    \A k \in DOMAIN ev.packed :
        /\ ev.packed[k].beacon.is_valid
        /\ ev.packed[k].beacon.ttl > 0
        /\ ad_data[ev.packed[k].at + 8] = ev.packed[k].beacon.ttl

\* C6 witness: send_adv_data built a payload while the store held a valid
\* record of ttl 0 that was old enough to be relayed; the record is still
\* in the store
C6_Witness ==
    /\ ev.send_called
    /\ ev.set_to_use # -1
    /\ ~ev.recovered
    /\ \E i \in ValidSlots(ev.q_send) :
          /\ ev.q_send[i].ttl = 0
          /\ Sub32(now, ev.q_send[i].last_seen) >= TIME_THRESHOLD
          /\ beacon_queue[i] = ev.q_send[i]

\* the ttl the next relay derives from a payload of this relay
HopTtl(payload) == ParseAd(OnAir(payload), DirectSighting, 0).ttl

\* C7: for every payload handed to Transport, the ttl the next relay
\* derives from it is strictly smaller than the ttl this relay derived for
\* each record relayed in it.
C7_TtlDecreasesPerHop ==
    ev.handed # NoHand =>
        \A k \in DOMAIN ev.packed : HopTtl(ad_data) < ev.packed[k].beacon.ttl

\* some valid record of q is old enough and has hops left at current_time
Eligible(q, current_time) == \E i \in DOMAIN q : Relayable(q[i], current_time)

\* C9: a flush that finds a Free slot and eligible records, and whose
\* Transport calls succeed, hands a payload to a slot that was Free; the
\* flush is deferred with -EBUSY only when no slot is Free.
C9_FlushUsesFreeSlot ==
    (ev.send_called /\ ~ev.recovered) =>
        /\ ev.ret = -EBUSY => SetIds \subseteq ev.bits_send
        /\ (/\ SetIds \ ev.bits_send # {}
            /\ Eligible(ev.q_send, now)
            /\ ev.ret \notin {-EIO})
             => ev.handed.set \in SetIds \ ev.bits_send

\* C8: a call of send_adv_data that finds every advertising set active
\* returns -EBUSY, selects no set, hands nothing to Transport and leaves
\* every record of the store as it was: no record is invalidated or added.
C8_Backpressure ==
    (ev.send_called /\ SetIds \subseteq ev.bits_send) =>
        /\ ev.ret = -EBUSY
        /\ ev.set_to_use = -1
        /\ ev.handed = NoHand
        /\ ev.packed = <<>>
        /\ beacon_queue = ev.q_send
        /\ ~ev.recovered => adv_set_active_bitfield = ev.bits_send

\* C8 witness: a due flush of the aggregation variant found both sets
\* active while a record old enough to be sent was in the store
C8_Witness ==
    /\ ev.send_called
    /\ SetIds \subseteq ev.bits_send
    /\ ~ev.recovered
    /\ \E i \in DOMAIN ev.q_send : agg_Sendable(ev.q_send[i], now)

\* the entries in the payload: the test device and the records packed
Entries == Len(ev.packed) + (IF ev.test_device_added THEN 1 ELSE 0)

C10_NoDoubleHandOff ==
    /\ \A t, u \in Threads :
          (threads[t].pc # "idle" /\ threads[u].pc # "idle") => t = u
    /\ ev.handed # NoHand => ~ev.handed.was_active

\* C11: a set is released once: the counter of active sets is decremented
\* for a set only when the bit of that set was still set when it is cleared,
\* so the counter never becomes negative.
C11_ReleaseOnce ==
    /\ active_adv_sets >= 0
    /\ \A k \in DOMAIN ev.released : ev.released[k].was_active

\* the number of records of q that are eligible at current_time
CountEligible(q, current_time) ==
    Cardinality({i \in DOMAIN q : Relayable(q[i], current_time)})

\* the flush trigger: a full batch of eligible records, or MAX_WAIT_TIME_MS
\* since the last flush and at least one eligible record
Triggered(q, current_time, last_flush_time) ==
    \/ CountEligible(q, current_time) >= BEACON_BATCH_SIZE
    \/ /\ FlushDue(current_time, last_flush_time)
       /\ CountEligible(q, current_time) > 0

\* C12: a payload is handed to Transport only when the flush trigger held
\* for the store and the last flush time the handler started from, and a
\* run of check_and_send that does not call send_adv_data found the trigger
\* false.
C12_FlushWhenTriggered ==
    [][/\ ev'.handed # NoHand
            => Triggered(ev'.q_send, now', last_send_time)
       /\ (ev'.checked /\ ~ev'.send_called /\ ~ev'.recovered)
            => ~Triggered(beacon_queue', now', last_send_time)]_vars

\* C13: last_send_time changes only in a handler that handed a payload with
\* at least one record of the store to Transport, and Transport accepted it.
C13_LastSendTimeOnSuccess ==
    [][last_send_time' # last_send_time
         => /\ ev'.handed # NoHand
            /\ ev'.ret = 0
            /\ Len(ev'.packed) >= 1]_vars

\* C14: a run of adv_work_handler at a time when more than
\* RECOVERY_TIMEOUT_MS have passed since the last successful operation, the
\* sends of this run included, runs recover_from_hang.
C14_TickRunsWatchdog ==
    [][(/\ ev'.op = "adv_work_handler"
        /\ RecoveryDue(now, last_successful_operation'))
         => ev'.recovered]_vars

\* C15: recover_from_hang does not run again within RECOVERY_TIMEOUT_MS of
\* its last run.
C15_RecoveryOncePerStall ==
    [][(ev'.recovered /\ last_recovery # -1)
         => Sub32(now, last_recovery) > RECOVERY_TIMEOUT_MS]_vars

\* C16: after a handler that ran recover_from_hang no advertising set is
\* marked active, the counter of active sets is 0, and the counter of
\* sightings since the last check and last_send_time are 0.
C16_RecoveryResets ==
    ev.recovered =>
        /\ adv_set_active_bitfield = {}
        /\ active_adv_sets = 0
        /\ beacons_since_last_check = 0
        /\ last_send_time = 0

\* C16 witness: recover_from_hang ran after a flush that found set 0 active
\* and after an earlier successful flush
C16_Witness ==
    /\ ev.recovered
    /\ ev.send_called
    /\ ev.bits_send # {}
    /\ last_successful_operation > 0
    /\ adv_set_active_bitfield = {}

\* C17: a handler that ran recover_from_hang leaves the store as it was at
\* the call: every record keeps its fields and its validity; and in the
\* aggregation variant the valid records are still counted by beacon_count.
C17_RecoveryKeepsStore ==
    ev.recovered =>
        /\ beacon_queue = ev.q_recover
        /\ ~IsTtlStore(beacon_queue)
             => beacon_count = Cardinality(ValidSlots(beacon_queue))

\* C18: a call of send_adv_data leaves the store as it found it: no record
\* is added, none is invalidated and no field of a record changes.
C18_SerializerKeepsStore ==
    ev.send_called => beacon_queue = ev.q_send

\* record b is dropped by the stale sweep at current_time
Stale(b, current_time) ==
    b.is_valid /\ Sub32(current_time, b.last_seen) >= 2 * TIME_THRESHOLD

\* C19: a record that is valid before a handler and not valid after it was
\* stale at the time of the handler, or was packed into a payload that
\* Transport accepted.
C19_InvalidatedOnlyWhenSent ==
    [][\A i \in ValidSlots(beacon_queue) :
          ~beacon_queue'[i].is_valid
            => \/ Stale(beacon_queue[i], now)
               \/ /\ ev'.handed # NoHand
                  /\ \E k \in DOMAIN ev'.packed : ev'.packed[k].slot = i]_vars

\* C20: the sweep at the start of check_and_send leaves no valid record
\* whose age is 2 * TIME_THRESHOLD or more, and leaves every other record
\* as it was.  The store before the sweep is the one add_beacon returned
\* (device_found) or the one the handler started with (adv_work_handler);
\* the store after it is the one send_adv_data is called with, or the
\* handler's last when it is not called.
C20_SweepStale ==
    [][ev'.checked =>
          LET before == IF ev'.op = "device_found" THEN ev'.q_up ELSE beacon_queue
              after == IF ev'.send_called THEN ev'.q_send ELSE beacon_queue'
          IN  \A i \in DOMAIN before :
                 /\ ~Stale(after[i], now)
                 /\ ~Stale(before[i], now) => after[i] = before[i]
                 /\ Stale(before[i], now) => ~after[i].is_valid]_vars

\* C20 witness: the sweep dropped a record of age 2 * TIME_THRESHOLD and
\* kept a younger one that was old enough to be relayed
C20_Witness ==
    /\ ev.op = "device_found"
    /\ ev.checked
    /\ ev.send_called
    /\ \E i \in ValidSlots(ev.q_up) : ~ev.q_send[i].is_valid
    /\ \E j \in ValidSlots(ev.q_send) :
          /\ ev.q_up[j] = ev.q_send[j]
          /\ Sub32(now, ev.q_send[j].last_seen) >= TIME_THRESHOLD

\* the slots of q whose records are eligible at current_time
EligibleSlots(q, current_time) == {i \in DOMAIN q : Relayable(q[i], current_time)}

\* C21: a call of send_adv_data of the TTL variant that finds a free set and
\* exactly BEACON_BATCH_SIZE eligible records packs those records, the
\* payload holds BEACON_BATCH_SIZE entries and no other, and no record of
\* the store is eligible afterwards.
C21_BatchPackedExactly ==
    (/\ ev.op = "send_adv_data"
     /\ ev.set_to_use # -1
     /\ Cardinality(EligibleSlots(ev.q_send, now)) = BEACON_BATCH_SIZE)
      => /\ {ev.packed[k].slot : k \in DOMAIN ev.packed} = EligibleSlots(ev.q_send, now)
         /\ Len(ev.packed) = BEACON_BATCH_SIZE
         /\ Entries = BEACON_BATCH_SIZE
         /\ EligibleSlots(beacon_queue, now) = {}

\* C22: a tick at which MAX_WAIT_TIME_MS have passed since the last flush,
\* with at least one and fewer than BEACON_BATCH_SIZE eligible records in
\* the store and a free set, calls send_adv_data, and the records packed
\* are the eligible ones.
C22_MaxWaitFlush ==
    [][(/\ ev'.op = "adv_work_handler"
        /\ FlushDue(now, last_send_time)
        /\ Cardinality(EligibleSlots(beacon_queue, now)) \in 1..(BEACON_BATCH_SIZE - 1)
        /\ adv_set_active_bitfield = {})
         => /\ ev'.send_called
            /\ {ev'.packed[k].slot : k \in DOMAIN ev'.packed}
                   = EligibleSlots(beacon_queue, now)]_vars

\* C23: is_duplicate_sequence answers true exactly for a sequence that is
\* the record's last_sequence or one of the entries of its history: an
\* upsert for an address the store holds leaves the store as it was when
\* the sequence is one of these, and records the sighting when it is not.
C23_DuplicateExactly ==
    [][(/\ ev'.op = "device_found"
        /\ SlotsOf(beacon_queue, ev'.sighting.addr) # {})
         => \A i \in SlotsOf(beacon_queue, ev'.sighting.addr) :
               /\ ev'.up_ret = i
               /\ SeenBy(beacon_queue[i], ev'.sighting.sequence)
                    <=> ev'.q_up = beacon_queue
               /\ ~SeenBy(beacon_queue[i], ev'.sighting.sequence)
                    => /\ ev'.q_up[i].last_sequence = ev'.sighting.sequence
                       /\ ev'.q_up[i].last_seen = now]_vars

\* C23 witness: a sequence that is neither the last one of the record nor
\* the first of its history, but the second, was found to be a duplicate
C23_Witness ==
    /\ ev.op = "device_found"
    /\ ev.up_ret >= 0
    /\ ev.q_up[ev.up_ret].addr = ev.sighting.addr
    /\ ev.q_up[ev.up_ret].history_index = 3
    /\ ev.q_up[ev.up_ret].sequence_history[1] = ev.sighting.sequence
    /\ ev.q_up[ev.up_ret].last_sequence # ev.sighting.sequence
    /\ ev.q_up[ev.up_ret].last_seen < now
\* C24: the history of a record is a ring of SEQUENCE_HISTORY_SIZE entries.
\* For every valid record, after n sequences were recorded since its
\* insertion: the write position is n % SEQUENCE_HISTORY_SIZE, last_sequence
\* is the sequence recorded last, each of the SEQUENCE_HISTORY_SIZE
\* sequences recorded last is a duplicate, and a sequence recorded only
\* before those is no longer in the history.
C24_RingHistory ==
    \A i \in ValidSlots(beacon_queue) :
        LET b == beacon_queue[i]
            L == recorded[i]
            n == Len(L)
            Recent == {k \in 1..n : k > n - SEQUENCE_HISTORY_SIZE}
        IN  /\ n > 0
            /\ b.history_index \in HistIdx
            /\ b.history_index = n % SEQUENCE_HISTORY_SIZE
            /\ b.last_sequence = L[n]
            /\ \A k \in Recent : /\ is_duplicate_sequence(b, L[k])
                                 /\ \E h \in HistIdx : b.sequence_history[h] = L[k]
            /\ \A k \in (1..n) \ Recent :
                  (\A j \in Recent : L[j] # L[k])
                      => \A h \in HistIdx : b.sequence_history[h] # L[k]

\* sequence 1 was recorded first, evicted by SEQUENCE_HISTORY_SIZE later
\* sequences, and recorded again when it came back
C24_Witness ==
    \E i \in ValidSlots(beacon_queue) :
        /\ beacon_queue[i].addr = RelayAddr
        /\ Len(recorded[i]) = SEQUENCE_HISTORY_SIZE + 2
        /\ recorded[i][1] = 1
        /\ recorded[i][SEQUENCE_HISTORY_SIZE + 2] = 1
        /\ ev.op = "device_found"

\* C25: every call of send_adv_data that packs a buffer increments the
\* outbound sequence number once, modulo 256, and writes it into byte 3 of
\* the header, so that the buffer carries the sequence of the buffer packed
\* before it plus one; nothing else changes the sequence number.
C25_SequenceOncePerPack ==
    [][/\ (ev'.send_called /\ ev'.set_to_use # -1)
            => /\ global_sequence' = (global_sequence + 1) % 256
               /\ ad_data'[4] = global_sequence'
               /\ ad_data # <<>> => ad_data'[4] = (ad_data[4] + 1) % 256
       /\ ~(ev'.send_called /\ ev'.set_to_use # -1)
            => global_sequence' = global_sequence]_vars

\* C26: an upsert for a stored address with a sequence that is not a
\* duplicate refreshes the record: last_seen is now, rssi is the sighting's
\* or the larger of the two, ttl, temperature and voltage are the
\* sighting's, and the sequence is recorded in the history.
C26_UpdateRefreshes ==
    [][(/\ ev'.op = "device_found"
        /\ SlotsOf(beacon_queue, ev'.sighting.addr) # {})
         => \A i \in SlotsOf(beacon_queue, ev'.sighting.addr) :
               ~SeenBy(beacon_queue[i], ev'.sighting.sequence)
                 => LET old == beacon_queue[i]
                        new == ev'.q_up[i]
                        s == ev'.sighting
                    IN  /\ new.is_valid
                        /\ new.addr = s.addr
                        /\ new.last_seen = now
                        /\ new.rssi \in {s.rssi, IF old.rssi > s.rssi THEN old.rssi ELSE s.rssi}
                        /\ new.ttl = s.ttl
                        /\ new.temperature = s.temperature
                        /\ new.voltage = s.voltage
                        /\ new.last_sequence = s.sequence
                        /\ new.sequence_history[old.history_index] = s.sequence]_vars

\* C27: no handler sleeps: the clock reads the same when device_found or
\* adv_work_handler returns as when it was entered, whatever path it took
\* through check_and_send and recover_from_hang.
C27_HandlersDoNotSleep ==
    [][ev'.op \in {"device_found", "adv_work_handler"} => now' = now]_vars

\* the ttl a relay derives from the TTL byte t of a relay header
RelayedTtl(t) == IF t > 0 THEN t - 1 ELSE 0

\* C28: an upsert for an address that is not in the store, while a slot is
\* free, fills the lowest free slot and no other: the record is valid, has
\* the sighting's address, rssi, temperature and voltage, last_seen = now,
\* ttl INITIAL_TTL for a direct sighting and the header's TTL less one for a
\* relayed one, last_sequence = the sighting's sequence, and a history of
\* one written entry, this sequence, with every other entry cleared.
C28_InsertNew ==
    [][(/\ ev'.op = "device_found"
        /\ SlotsOf(beacon_queue, ev'.sighting.addr) = {}
        /\ ValidSlots(beacon_queue) # DOMAIN beacon_queue)
         => LET s == ev'.sighting
                f == ev'.up_ret
                new == ev'.q_up[f]
            IN  /\ f \in DOMAIN beacon_queue \ ValidSlots(beacon_queue)
                /\ \A j \in DOMAIN beacon_queue \ ValidSlots(beacon_queue) : f <= j
                /\ \A j \in DOMAIN beacon_queue \ {f} : ev'.q_up[j] = beacon_queue[j]
                /\ new.is_valid
                /\ new.addr = s.addr
                /\ new.rssi = s.rssi
                /\ new.temperature = s.temperature
                /\ new.voltage = s.voltage
                /\ new.last_seen = now
                /\ \E sg \in Sightings :
                      /\ sg.addr = s.addr
                      /\ sg.rssi = s.rssi
                      /\ IF s.relay
                         THEN new.ttl = RelayedTtl(sg.ad[7]) /\ new.last_sequence = sg.ad[6]
                         ELSE new.ttl = INITIAL_TTL
                /\ new.last_sequence = s.sequence
                /\ new.history_index = 1
                /\ new.sequence_history[0] = s.sequence
                /\ \A k \in HistIdx \ {0} : new.sequence_history[k] = 0]_vars

\* C28 witness: a relayed sighting of a new address was inserted into
\* slot 1 while slot 0 held the record of another address
C28_Witness ==
    /\ ev.op = "device_found"
    /\ ev.up_ret = 1
    /\ ev.sighting.relay
    /\ ev.sighting.sequence # 0
    /\ ev.q_up[1].addr = ev.sighting.addr
    /\ ev.q_up[1].history_index = 1
    /\ ev.q_up[1].last_seen = now
    /\ recorded[1] = <<ev.sighting.sequence>>
    /\ ev.q_up[0].is_valid
    /\ ev.q_up[0].addr # ev.sighting.addr

\* C29: a sighting of a new address that meets a store without a free slot
\* is dropped: the upsert returns -1 and the store after it is the store
\* before it, record by record and field by field; nothing is recorded for
\* any slot, and the store after the handler is still that store unless the
\* handler went on to run check_and_send.
C29_FullDropsSighting ==
    [][(ev'.op = "device_found" /\ FullFor(beacon_queue, ev'.sighting.addr))
         => /\ ev'.up_ret = -1
            /\ \A i \in DOMAIN beacon_queue : ev'.q_up[i] = beacon_queue[i]
            /\ DOMAIN ev'.q_up = DOMAIN beacon_queue
            /\ ~ev'.checked => (beacon_queue' = beacon_queue /\ recorded' = recorded)]_vars

\* C29 witness: device_found dropped a sighting at a full store of other
\* addresses and did not run the check
C29_Witness ==
    /\ ev.op = "device_found"
    /\ ev.up_ret = -1
    /\ ~ev.checked
    /\ FullFor(beacon_queue, ev.sighting.addr)
    /\ ev.q_up = beacon_queue

\* the sets released by the last handler
ReleasedSets == {ev.released[k].set : k \in DOMAIN ev.released}
\* the set the last handler started advertising on, if any
StartedSets == IF ev.send_called /\ ev.ret = 0 THEN {ev.set_to_use} ELSE {}

\* C30: a run of adv_work_handler calls bt_le_ext_adv_stop for each set
\* that is marked active: a set whose stop succeeded is released, with the
\* counter of active sets decremented by one for it, a set whose stop failed
\* keeps its bit and is stopped again by the next run; the check runs in
\* this run when a set was released; and the work is scheduled again,
\* ADV_DURATION_MS after the handler's end.  The bits and the counter after
\* the run are those left by the releases and by the send of the check,
\* unless the check ran recover_from_hang.
C30_TickReleases ==
    [][ev'.op = "adv_work_handler"
         => LET Act == adv_sets \cap adv_set_active_bitfield
                Rel == ReleasedSets'
                Failed == ev'.stop_failed
            IN  /\ Rel \cup Failed = Act
                /\ Rel \cap Failed = {}
                /\ Len(ev'.released) = Cardinality(Rel)
                /\ Rel # {} => ev'.checked
                /\ work_due' = now' + ADV_DURATION_MS
                /\ ~ev'.recovered
                     => /\ adv_set_active_bitfield'
                             = (adv_set_active_bitfield \ Rel) \cup StartedSets'
                        /\ active_adv_sets'
                             = active_adv_sets - Cardinality(Rel)
                                 + Cardinality(StartedSets')
                        /\ Failed \subseteq adv_set_active_bitfield']_vars

\* C30 witness: the stop of the active set failed at one run, the set
\* stayed active and nothing else was done; the work is scheduled again
C30_Witness ==
    /\ ev.op = "adv_work_handler"
    /\ ev.stop_failed # {}
    /\ ev.stop_failed \subseteq adv_set_active_bitfield
    /\ active_adv_sets = Cardinality(adv_set_active_bitfield)
    /\ ~ev.checked
    /\ work_due = now + ADV_DURATION_MS

\* C31: every run of adv_work_handler sweeps the store before it decides on
\* a flush, whether it released a set or not: a record that is stale when
\* the run starts is not valid when it ends; and no record that is stale at
\* the time of a send is written into the buffer.
C31_SweepEveryTick ==
    [][/\ ev'.op = "adv_work_handler"
            => \A i \in ValidSlots(beacon_queue) :
                  Stale(beacon_queue[i], now)
                      => \/ ~beacon_queue'[i].is_valid
                         \/ beacon_queue'[i].last_seen # beacon_queue[i].last_seen
       /\ \A k \in DOMAIN ev'.packed : ~Stale(ev'.packed[k].beacon, now)]_vars

\* what a relay that receives payload derives from it; g is the byte it
\* would read outside the element
Received(payload, g) == ParseAd(OnAir(payload), DirectSighting, g)

\* C32: every buffer send_adv_data has built starts with 0x59 0x00 0x08,
\* the sequence number of the send and INITIAL_TTL, and the parser of
\* device_found, given the buffer as Transport sends it, derives that
\* sequence and the TTL byte less one (0 for 0), reading no byte outside
\* the element.
C32_HeaderRoundTrip ==
    (ev.send_called /\ ev.set_to_use # -1)
        => /\ Len(ad_data) >= 5
           /\ SubSeq(ad_data, 1, 3) = <<89, 0, 8>>
           /\ ad_data[4] = global_sequence
           /\ ad_data[5] = INITIAL_TTL
           /\ ParseInside(OnAir(ad_data))
           /\ \A g \in StrayBytes :
                 /\ Received(ad_data, g).sequence = ad_data[4]
                 /\ Received(ad_data, g).ttl = RelayedTtl(ad_data[5])
                 /\ Received(ad_data, g).ttl = INITIAL_TTL - 1

\* C32 witness: a buffer with the header, the test device and a record was
\* handed to Transport
C32_Witness ==
    /\ ev.send_called
    /\ ev.handed # NoHand
    /\ Len(ev.packed) >= 1
    /\ Len(ad_data) > 5 + BEACON_DATA_SIZE
    /\ Received(ad_data, 0).sequence = global_sequence
    /\ global_sequence >= 1

\* C33: a report is relayed once: a sighting whose address and sequence are
\* those of a record that was packed and sent is rejected by the upsert,
\* which leaves the store as it was, and no buffer that is sent carries a
\* record whose address and sequence were sent before.
C33_RelayedOnce ==
    [][/\ (/\ ev'.op = "device_found"
           /\ [addr |-> ev'.sighting.addr, sequence |-> ev'.sighting.sequence]
                  \in relayed)
            => ev'.q_up = beacon_queue
       /\ ev'.handed # NoHand => Reports(ev'.packed) \cap relayed = {}]_vars

\* C34: with fair ticks and a Transport that never fails, a record with
\* hops left that was stored at 0 ms leaves the store, packed into a buffer
\* or swept as stale, whether or not its beacon is sighted again.  The run
\* goes on for 2 * TIME_THRESHOLD after the record was stored.
C34_RecordLeaves ==
    \A i \in 0..(MAX_BEACONS - 1) :
        (/\ beacon_queue[i].is_valid
         /\ beacon_queue[i].ttl > 0
         /\ beacon_queue[i].last_seen = 0)
            ~> ~beacon_queue[i].is_valid

\* C35: with handlers that run one at a time, the counter of active sets is
\* the number of sets whose bit is set, and lies in 0..MAX_ADV_SETS, after
\* every send, tick and recovery.
C35_CounterIsBitCount ==
    /\ active_adv_sets = Cardinality(adv_set_active_bitfield)
    /\ active_adv_sets \in 0..MAX_ADV_SETS
    /\ adv_set_active_bitfield \subseteq SetIds

\* C35 witness: a tick released the active set and its check started a
\* set again
C35_Witness ==
    /\ ev.op = "adv_work_handler"
    /\ ev.released # <<>>
    /\ ev.handed # NoHand
    /\ active_adv_sets = 1
    /\ adv_set_active_bitfield = {ev.handed.set}

\* the sequences recorded for the record in slot i since it was inserted
RecordedFor(i) == {recorded[i][k] : k \in DOMAIN recorded[i]}

\* C36: for every valid record and every sequence value, 0 included, the
\* filter reports the value as a duplicate only if it was recorded for that
\* record since the record was inserted; and a sighting of a stored address
\* with a sequence that was never recorded for it changes the record.
C36_DuplicateOnlyIfRecorded ==
    [][/\ \A i \in ValidSlots(beacon_queue) :
             \A s \in 0..255 :
                is_duplicate_sequence(beacon_queue[i], s) => s \in RecordedFor(i)
       /\ (/\ ev'.op = "device_found"
           /\ SlotsOf(beacon_queue, ev'.sighting.addr) # {})
            => \A i \in SlotsOf(beacon_queue, ev'.sighting.addr) :
                  ev'.sighting.sequence \notin RecordedFor(i)
                      => ev'.q_up[i] # beacon_queue[i]]_vars

\* C37: in the aggregation variant beacon_count is the number of slots
\* whose record is valid, after every handler.
C37_CountIsOccupancy ==
    ~IsTtlStore(beacon_queue) => beacon_count = Cardinality(ValidSlots(beacon_queue))

\* the slot of the ring queue that is j places after the read index
RqSlot(j) == (beacon_read_index + j) % rq_MAX_BEACONS

\* C38: in the ring-queue variant, after every handler, beacon_count is at
\* most the number of slots and, when the queue is not full, is the
\* distance from the read index to the write index; every entry that was
\* added and not taken out is still in its slot; and every send takes the
\* oldest entries out, in the order in which they were added.
C38_RingQueue ==
    /\ beacon_count <= rq_MAX_BEACONS
    /\ beacon_count < rq_MAX_BEACONS
         => beacon_count = (beacon_write_index - beacon_read_index) % rq_MAX_BEACONS
    /\ Len(fifo) = beacon_count
    /\ \A j \in 1..Len(fifo) : beacon_queue[RqSlot(j - 1)] = fifo[j]
    /\ \A k \in DOMAIN ev.sends :
          /\ Len(ev.sends[k].packed) <= Len(ev.sends[k].pending)
          /\ \A j \in DOMAIN ev.sends[k].packed :
                ev.sends[k].packed[j].beacon = ev.sends[k].pending[j]

\* C39: in the aggregation variant a sighting of an address that has a
\* record leaves in it the stronger of the stored and the sighted rssi, a
\* sighting that creates the record stores its rssi, and both store the
\* time of the sighting in last_seen; no other step changes the rssi or
\* the last_seen of a record that stays valid, so the stored rssi is the
\* maximum over the sightings since the record was created and never
\* decreases.
C39_KeepMaximum ==
    [][/\ (ev'.op = "device_found" /\ ev'.up_ret # -1)
            => LET i == ev'.up_ret
                   s == ev'.sighting
                   known == \E j \in ValidSlots(beacon_queue) :
                                beacon_queue[j].addr = s.addr
               IN  /\ ev'.q_up[i].is_valid
                   /\ ev'.q_up[i].addr = s.addr
                   /\ ev'.q_up[i].last_seen = now
                   /\ known => /\ beacon_queue[i].is_valid
                               /\ beacon_queue[i].addr = s.addr
                               /\ ev'.q_up[i].rssi >= beacon_queue[i].rssi
                               /\ ev'.q_up[i].rssi >= s.rssi
                               /\ ev'.q_up[i].rssi \in {beacon_queue[i].rssi, s.rssi}
                   /\ ~known => ~beacon_queue[i].is_valid /\ ev'.q_up[i].rssi = s.rssi
                   /\ \A j \in DOMAIN beacon_queue :
                         j # i => ev'.q_up[j] = beacon_queue[j]
                   /\ beacon_queue'[i].is_valid => beacon_queue'[i] = ev'.q_up[i]
       /\ \A i \in DOMAIN beacon_queue :
             (beacon_queue[i].is_valid /\ beacon_queue'[i].is_valid)
                 => /\ beacon_queue'[i].addr = beacon_queue[i].addr
                    /\ beacon_queue'[i].rssi >= beacon_queue[i].rssi
                    /\ ~(ev'.op = "device_found" /\ ev'.up_ret = i)
                          => /\ beacon_queue'[i].rssi = beacon_queue[i].rssi
                             /\ beacon_queue'[i].last_seen = beacon_queue[i].last_seen]_vars

\* a weaker sighting of a beacon came after a stronger one, at a later time
C39_Witness ==
    /\ ev.op = "device_found"
    /\ ev.up_ret # -1
    /\ ev.sighting.rssi = -70
    /\ ev.q_up[ev.up_ret].rssi = -40
    /\ ev.q_up[ev.up_ret].last_seen > 0

\* C40: the sighting that is the BEACON_BATCH_SIZE-th since the counter
\* beacons_since_last_check was last 0 calls check_and_send, and after a
\* sighting that called check_and_send the counter is 0.
C40_CheckEveryBatch ==
    [][ev'.op = "device_found"
          => /\ beacons_since_last_check = BEACON_BATCH_SIZE - 1
                   => ev'.checked /\ beacons_since_last_check' = 0
             /\ ev'.checked => beacons_since_last_check' = 0]_vars

====
